---- MODULE Spec2Model ----
(***************************************************************************)
(* A model of the accounting backend: the ticket router                    *)
(* (src/src/tickets/tickets.service.ts) over a relational store with       *)
(* managed transactions, and the report generators                         *)
(* (src/src/reports/reports.service.ts) with their process-local status    *)
(* map.                                                                    *)
(***************************************************************************)
EXTENDS Integers, Sequences, FiniteSets, TLC

\* ------------------------------------------------------------------------
\* Bounds of the exploration
\* ------------------------------------------------------------------------

\* Largest number of users of one role a company is given.
MaxPerRole == 2

\* Number of createTicket calls made in one behaviour.
MaxCalls == 3

\* Concurrent requests being served (each runs one createTicket at a time).
Procs == {1, 2}

Companies == {1, 2}

\* Number of report generator calls made in one behaviour.
MaxGenCalls == 3

\* The elapsed times a generator or a run measures, in ticks of the clock.
ClockTicks == {0, 1}

\* Report generator calls that may be in progress at once.
Tasks == {1, 2}

\* Number of pipeline runs started in one behaviour, and the runs that may
\* be in progress at once.
MaxRuns == 2

Runs == {1, 2}

\* Number of pipeline runs triggered through the controller in one
\* behaviour.
MaxTriggers == 1

\* Number of direct generator calls made next to pipeline runs in one
\* behaviour.
MaxDirect == 1

\* Status requests that may be in flight at once.
Readers == {1, 2}

\* Request slots of the list-tickets endpoint.
Listers == {1, 2}

\* Creations posted to the tickets controller in a behaviour.
MaxPosts == 2

\* Files in the staging directory.
MaxFiles == 2

\* Lines in the staging directory, all files together.
MaxLines == 2

\* ------------------------------------------------------------------------
\* Enumerations (db/models/Ticket, db/models/User as used by the service)
\* ------------------------------------------------------------------------

TicketTypes == {"managementReport", "registrationAddressChange", "strikeOff"}

UserRoles == {"director", "corporateSecretary", "accountant"}

\* ------------------------------------------------------------------------
\* The users table: read-only for the router, fixed in a behaviour
\* ------------------------------------------------------------------------

RoleIndex(r) ==
    CASE r = "director" -> 0
      [] r = "corporateSecretary" -> 1
      [] r = "accountant" -> 2

UserId(c, r, k) == ((c - 1) * 3 + RoleIndex(r)) * MaxPerRole + k

\* Creation times are distinct within a company; in company 1 the user with
\* the larger id is the newer one, in company 2 the older one.
CreatedAt(c, k) == IF c = 1 THEN k ELSE MaxPerRole + 1 - k

MkUser(c, r, k) ==
    [id |-> UserId(c, r, k), role |-> r, companyId |-> c,
     createdAt |-> CreatedAt(c, k)]

\* Company 1 has cnt[r] users of role r; company 2 has one director, no
\* corporate secretary and MaxPerRole accountants.
MkUsers(cnt) ==
    UNION {{MkUser(1, r, k) : k \in 1..cnt[r]} : r \in UserRoles}
    \cup {MkUser(2, "director", 1)}
    \cup {MkUser(2, "accountant", k) : k \in 1..MaxPerRole}

UserConfigs == {MkUsers(cnt) : cnt \in [UserRoles -> 0..MaxPerRole]}

VARIABLES
    users,        \* the users table
    tickets,      \* the committed rows of the tickets table
    nextId,       \* the tickets id sequence
    nCalls,       \* createTicket calls started so far
    proc,         \* per request slot: the createTicket call it is serving
    states,       \* ReportsService.states: report name -> status
    metrics,      \* ReportsService.metrics
    parallel,     \* ReportsService.PARALLEL_PROCESSING
    task,         \* per task slot: the report generator call it is running
    run,          \* per run slot: the pipeline run it is carrying
    cache,        \* the 'reports-status' entry of the cache store
    reader,       \* per reader slot: the status request it is serving
    queries,      \* the latest getReportStatus outputs handed out
    epoch,        \* triggered runs completed so far
    nGenCalls,    \* report generator calls started so far
    nRuns,        \* pipeline runs started or triggered so far
    recorded,     \* per duration metric: the sum of the durations recorded
    tmp,          \* the staging directory: its files, in readdir order
    zone,         \* the host's time zone, in hours east of UTC
    scan,         \* the report generator call that is aggregating tmp
    out,          \* the output directory: per report, the file written
    allTickets,   \* the 'all-tickets' entry of the cache store
    lister,       \* per list slot: the GET api/v1/tickets request it is serving
    posted        \* the POST api/v1/tickets requests answered so far

tvars == <<users, tickets, nextId, nCalls, proc>>

rvars ==
    <<states, metrics, parallel, task, run, cache, reader, queries, epoch,
      nGenCalls, nRuns, recorded>>

svars == <<tmp, zone, scan, out>>

lvars == <<allTickets, lister, posted>>

\* What no step of a generator or of the pipeline touches.
others == <<parallel, tvars, svars, lvars>>

vars == <<tvars, rvars, svars, lvars>>

\* ------------------------------------------------------------------------
\* Tickets, results, and the pure parts of TicketsService
\* ------------------------------------------------------------------------

NoTicket ==
    [id |-> 0, type |-> "none", companyId |-> 0, assigneeId |-> 0,
     status |-> "none", category |-> "none"]

NoReq == [type |-> "none", companyId |-> 0]

NoFound == [kind |-> "none", msg |-> "none", role |-> "none", userId |-> 0]

NoRes == [kind |-> "none", msg |-> "none", ticket |-> NoTicket]

NoTx == [inserted |-> {}, resolved |-> {}]

\* The ConflictException messages, by the condition that raises them.
Conflict(m) == [kind |-> "conflict", msg |-> m, ticket |-> NoTicket]

\* A non-HTTP Error escaping createTicket.
InternalError == [kind |-> "error", msg |-> "storage", ticket |-> NoTicket]

mapTicketToDto(t) ==
    [id |-> t.id, type |-> t.type, companyId |-> t.companyId,
     assigneeId |-> t.assigneeId, status |-> t.status, category |-> t.category]

\* determineTicketCategory with the first two cases falling through.
determineTicketCategory_FallsThrough(type) ==
    CASE type = "managementReport" -> "management"
      [] type = "registrationAddressChange" -> "management"
      [] type = "strikeOff" -> "management"

determineTicketCategory(type) ==
    CASE type = "managementReport" -> "accounting"
      [] type = "registrationAddressChange" -> "corporate"
      [] type = "strikeOff" -> "management"

\* The switch that opens findAssignee.
PrimaryRole(type) ==
    CASE type = "managementReport" -> "accountant"
      [] type = "registrationAddressChange" -> "corporateSecretary"
      [] type = "strikeOff" -> "director"

\* User.findAll({ where: { companyId, role } })
UsersWith(companyId, role) ==
    {u \in users : u.companyId = companyId /\ u.role = role}

\* assignees[0] under the ascending order.
FirstByCreatedAtAsc(S) ==
    CHOOSE u \in S : \A v \in S : u.createdAt <= v.createdAt

\* assignees[0] under order: [['createdAt', 'DESC']]
FirstByCreatedAtDesc(S) ==
    CHOOSE u \in S : \A v \in S : v.createdAt <= u.createdAt

\* The fallback taken whether or not a corporate secretary was found.
UsesFallback_Always(type, assignees) ==
    type = "registrationAddressChange"

\* The fallback taken for every ticket type.
UsesFallback_AnyType(type, assignees) ==
    assignees = {}

\* The condition under which findAssignee repeats the query with director.
UsesFallback(type, assignees) ==
    type = "registrationAddressChange" /\ assignees = {}

\* The uniqueness rule applied to corporate secretaries only.
MustBeUnique_SecretaryOnly(userRole) ==
    userRole = "corporateSecretary"

\* The roles of which a company may have one eligible user only.
MustBeUnique(userRole) ==
    userRole = "corporateSecretary" \/ userRole = "director"

findAssignee(type, companyId) ==
    LET primary == UsersWith(companyId, PrimaryRole(type))
        fallback == UsesFallback(type, primary)
        userRole == IF fallback THEN "director" ELSE PrimaryRole(type)
        assignees == IF fallback THEN UsersWith(companyId, "director")
                     ELSE primary
    IN  IF assignees = {}
        THEN [kind |-> "conflict", msg |-> "CannotFindUser",
              role |-> userRole, userId |-> 0]
        ELSE IF MustBeUnique(userRole) /\ Cardinality(assignees) > 1
        THEN [kind |-> "conflict", msg |-> "MultipleUsers",
              role |-> userRole, userId |-> 0]
        ELSE [kind |-> "ok", msg |-> "none", role |-> userRole,
              userId |-> FirstByCreatedAtDesc(assignees).id]

\* DuplicateWhere without its status column.
DuplicateWhere_AnyStatus(t, companyId) ==
    /\ t.companyId = companyId
    /\ t.type = "registrationAddressChange"

\* The where clause of checkForDuplicateRegistrationTicket's findOne.
DuplicateWhere(t, companyId) ==
    /\ t.companyId = companyId
    /\ t.type = "registrationAddressChange"
    /\ t.status = "open"

\* findDirector without the check for several directors.
findDirector_TakesNewest(companyId) ==
    LET directors == UsersWith(companyId, "director")
    IN  IF directors = {}
        THEN [kind |-> "conflict", msg |-> "CannotFindUser",
              role |-> "director", userId |-> 0]
        ELSE [kind |-> "ok", msg |-> "none", role |-> "director",
              userId |-> FirstByCreatedAtDesc(directors).id]

\* The director lookup and the two checks that open the strikeOff transaction.
findDirector(companyId) ==
    LET directors == UsersWith(companyId, "director")
    IN  IF directors = {}
        THEN [kind |-> "conflict", msg |-> "CannotFindUser",
              role |-> "director", userId |-> 0]
        ELSE IF Cardinality(directors) > 1
        THEN [kind |-> "conflict", msg |-> "MultipleUsers",
              role |-> "director", userId |-> 0]
        ELSE [kind |-> "ok", msg |-> "none", role |-> "director",
              userId |-> FirstByCreatedAtDesc(directors).id]

\* ResolveWhere without its companyId column.
ResolveWhere_AnyCompany(t, companyId, ticketId) ==
    /\ t.status = "open"
    /\ t.id # ticketId

\* The where clause of the bulk update in createStrikeOffTicket.
ResolveWhere(t, companyId, ticketId) ==
    /\ t.companyId = companyId
    /\ t.status = "open"
    /\ t.id # ticketId

Resolve(t) == [t EXCEPT !.status = "resolved"]

Applied_DropsResolved(rows, w) ==
    {t \in rows : t.id \notin w.resolved} \cup w.inserted

\* The table after a transaction's write set is applied to it.
Applied(rows, w) ==
    {IF t.id \in w.resolved THEN Resolve(t) ELSE t : t \in rows} \cup w.inserted

\* ------------------------------------------------------------------------
\* Initial state
\* ------------------------------------------------------------------------

\* A request slot: pc is where its createTicket stands, req the
\* CreateTicketDto, found what the assignee or director lookup gave, tx the
\* write set of its open transaction, res what createTicket returned or
\* threw, pre the tickets table when createTicket was called, interleaved
\* whether another request took a step since the call.
IdleProc ==
    [pc |-> "idle", req |-> NoReq, found |-> NoFound, tx |-> NoTx,
     res |-> NoRes, pre |-> {}, interleaved |-> FALSE]

TicketsInit ==
    /\ users \in UserConfigs
    /\ tickets = {}
    /\ nextId = 1
    /\ nCalls = 0
    /\ proc = [p \in Procs |-> IdleProc]

\* ------------------------------------------------------------------------
\* createTicket, one action per statement on the tickets table
\* ------------------------------------------------------------------------

\* What a step of another request does to a slot: a call in progress has
\* been interleaved with; a result that was out is gone with its record.
Seen(r) ==
    CASE r.pc = "idle" -> r
      [] r.pc = "done" -> IdleProc
      [] OTHER -> [r EXCEPT !.interleaved = TRUE]

\* Request p moves to record r.
Step(p, r) == proc' = [q \in Procs |-> IF q = p THEN r ELSE Seen(proc[q])]

\* createTicket ends: it returns or throws result; the transaction, if any,
\* is over.
Finish(r, result) == [r EXCEPT !.pc = "done", !.res = result, !.tx = NoTx]

Returned(t) == [kind |-> "ok", msg |-> "none", ticket |-> mapTicketToDto(t)]

FirstStep(type) ==
    CASE type = "strikeOff" -> "txCreate"
      [] type = "registrationAddressChange" -> "dupCheck"
      [] type = "managementReport" -> "create"

\* A request slot is free before its first call and once its result is out.
Free(p) == proc[p].pc \in {"idle", "done"}

\* createTicket is called. A new request is served in the lowest free slot.
CreateTicketCall(p, type, companyId) ==
    /\ Free(p)
    /\ \A q \in Procs : q < p => ~Free(q)
    /\ nCalls < MaxCalls
    /\ nCalls' = nCalls + 1
    /\ Step(p, [IdleProc EXCEPT
                   !.pc = FirstStep(type),
                   !.req = [type |-> type, companyId |-> companyId],
                   !.pre = tickets])
    /\ UNCHANGED <<users, tickets, nextId, rvars, svars, lvars>>

\* await Ticket.findOne(...) and the throw that may follow it.
checkForDuplicateRegistrationTicket(p) ==
    /\ proc[p].pc = "dupCheck"
    /\ IF \E t \in tickets : DuplicateWhere(t, proc[p].req.companyId)
       THEN Step(p, Finish(proc[p], Conflict("DuplicateRegistration")))
       ELSE Step(p, [proc[p] EXCEPT !.pc = "create"])
    /\ UNCHANGED <<users, tickets, nextId, nCalls, rvars, svars, lvars>>

NewTicket(type, companyId, assigneeId, id) ==
    [id |-> id, type |-> type, companyId |-> companyId,
     assigneeId |-> assigneeId, status |-> "open",
     category |-> determineTicketCategory(type)]

\* findAssignee, then Ticket.create outside any transaction: the row is
\* committed at once. The users table never changes, so the lookup commutes
\* with the steps of the other requests and is taken together with the
\* insert that follows it.
TicketCreate(p) ==
    /\ proc[p].pc = "create"
    /\ LET r == proc[p]
           f == findAssignee(r.req.type, r.req.companyId)
           t == NewTicket(r.req.type, r.req.companyId, f.userId, nextId)
       IN  IF f.kind = "ok"
           THEN /\ tickets' = tickets \cup {t}
                /\ nextId' = nextId + 1
                /\ Step(p, Finish([r EXCEPT !.found = f], Returned(t)))
           ELSE /\ Step(p, Finish([r EXCEPT !.found = f], Conflict(f.msg)))
                /\ UNCHANGED <<tickets, nextId>>
    /\ UNCHANGED <<users, nCalls, rvars, svars, lvars>>

\* ------------------------------------------------------------------------
\* createStrikeOffTicket: sequelize.transaction(async (transaction) => ...)
\* ------------------------------------------------------------------------

\* The insert issued without the transaction option: committed at once.
InsertInTx_Autocommit(rows, w, t) ==
    [rows |-> rows \cup {t}, tx |-> [w EXCEPT !.inserted = @ \cup {t}]]

\* Ticket.create(..., { transaction }): the row joins the write set of the
\* transaction and is invisible to the other requests until the commit.
\* Gives the committed table and the write set after the insert.
InsertInTx(rows, w, t) ==
    [rows |-> rows, tx |-> [w EXCEPT !.inserted = @ \cup {t}]]

\* The director lookup with its two checks, then the insert of the strikeOff
\* ticket (the lookup is taken with the insert, as in TicketCreate).
TxCreate(p) ==
    /\ proc[p].pc = "txCreate"
    /\ LET r == proc[p]
           f == findDirector(r.req.companyId)
           t == NewTicket("strikeOff", r.req.companyId, f.userId, nextId)
           ins == InsertInTx(tickets, r.tx, t)
       IN  IF f.kind = "ok"
           THEN /\ tickets' = ins.rows
                /\ nextId' = nextId + 1
                /\ Step(p, [r EXCEPT !.found = f, !.tx = ins.tx,
                                     !.pc = "txUpdate"])
           ELSE /\ Step(p, Finish([r EXCEPT !.found = f], Conflict(f.msg)))
                /\ UNCHANGED <<tickets, nextId>>
    /\ UNCHANGED <<users, nCalls, rvars, svars, lvars>>

\* The ticket this transaction created (the local `ticket`).
TxTicket(w) == CHOOSE t \in w.inserted : TRUE

TxUpdate_Autocommit(p) ==
    /\ proc[p].pc = "txUpdate"
    /\ LET r == proc[p]
           hit == {t \in tickets \cup r.tx.inserted :
                      ResolveWhere(t, r.req.companyId, TxTicket(r.tx).id)}
       IN  /\ tickets' = {IF t \in hit THEN Resolve(t) ELSE t : t \in tickets}
           /\ Step(p, [r EXCEPT !.pc = "txCommit"])
    /\ UNCHANGED <<users, nextId, nCalls, rvars, svars, lvars>>

\* Ticket.update(..., { where, transaction }): the statement sees the
\* committed rows and the transaction's own.
TxUpdate(p) ==
    /\ proc[p].pc = "txUpdate"
    /\ LET r == proc[p]
           hit == {t \in tickets \cup r.tx.inserted :
                      ResolveWhere(t, r.req.companyId, TxTicket(r.tx).id)}
       IN  Step(p, [r EXCEPT !.tx.resolved = {t.id : t \in hit},
                             !.pc = "txCommit"])
    /\ UNCHANGED <<users, tickets, nextId, nCalls, rvars, svars, lvars>>

\* The callback returned: the transaction commits and createTicket returns
\* the dto of the created ticket.
TxCommit(p) ==
    /\ proc[p].pc = "txCommit"
    /\ tickets' = Applied(tickets, proc[p].tx)
    /\ Step(p, Finish(proc[p], Returned(TxTicket(proc[p].tx))))
    /\ UNCHANGED <<users, nextId, nCalls, rvars, svars, lvars>>

\* A statement of the transaction (the director query, the insert or the
\* bulk update) throws something that is no ConflictException: the catch
\* wraps it, the callback rejects and the transaction is rolled back.
TxStatementFails(p) ==
    /\ proc[p].pc \in {"txCreate", "txUpdate"}
    /\ Step(p, Finish(proc[p], Conflict("PleaseTryAgain")))
    /\ UNCHANGED <<users, tickets, nextId, nCalls, rvars, svars, lvars>>

\* A query of the non-transactional path throws: nothing catches it inside
\* createTicket.
QueryFails(p) ==
    /\ proc[p].pc \in {"dupCheck", "create"}
    /\ Step(p, Finish(proc[p], InternalError))
    /\ UNCHANGED <<users, tickets, nextId, nCalls, rvars, svars, lvars>>

\* findAll: Ticket.findAll({ include: [Company, User] }) reads every row and
\* writes none.
findAll == UNCHANGED vars

\* ------------------------------------------------------------------------
\* TicketsController: create, and findAll behind the CacheInterceptor
\* ------------------------------------------------------------------------

\* A list request slot: pc is where the request stands, got the reply of the
\* cache store to the interceptor's get, rows what Ticket.findAll read,
\* floor the tickets table as the latest answered creation left it when the
\* request arrived, kind how the request ended ("hit", "miss", "notFound",
\* "error") and answer the list it was answered with.
IdleLister ==
    [pc |-> "idle", got |-> [present |-> FALSE, value |-> {}], rows |-> {},
     floor |-> {}, kind |-> "none", answer |-> {}]

\* No cache entry, no list request, no creation answered.
ListingIdle ==
    /\ allTickets = [present |-> FALSE, value |-> {}]
    /\ lister = [q \in Listers |-> IdleLister]
    /\ posted = [count |-> 0, table |-> {}]

\* An answered list request is gone with the next step of the controller.
SeenListers ==
    [q \in Listers |-> IF lister[q].pc = "done" THEN IdleLister ELSE lister[q]]

\* create after `await this.ticketsService.createTicket`: on success the
\* entry is deleted and the result returned; an exception is passed on and
\* the entry stays.
CreateReturns(p) ==
    /\ proc[p].pc = "done"
    /\ posted.count < nCalls
    /\ IF proc[p].res.kind = "ok"
       THEN /\ allTickets' = [present |-> FALSE, value |-> {}]
            /\ posted' = [count |-> nCalls, table |-> tickets]
       ELSE /\ allTickets' = allTickets
            /\ posted' = [posted EXCEPT !.count = nCalls]
    /\ lister' = SeenListers
    /\ UNCHANGED <<tvars, rvars, svars>>

\* GET api/v1/tickets arrives: the CacheInterceptor asks the store for
\* 'all-tickets'. The store serves the commands of the process in the order
\* they were issued, so the reply is the entry as of now.
ListArrives(q) ==
    /\ lister[q].pc \in {"idle", "done"}
    /\ \A j \in Listers : j < q => lister[j].pc \notin {"idle", "done"}
    /\ lister' = [SeenListers EXCEPT ![q] =
                      [IdleLister EXCEPT !.pc = "get", !.got = allTickets,
                                         !.floor = posted.table]]
    /\ UNCHANGED <<allTickets, posted, tvars, rvars, svars>>

\* The reply of the store arrives: a hit is the response; on a miss the
\* handler is called and issues Ticket.findAll.
ListGetReplies(q) ==
    /\ lister[q].pc = "get"
    /\ lister' = [SeenListers EXCEPT ![q] =
                      IF lister[q].got.present
                      THEN [lister[q] EXCEPT !.pc = "done", !.kind = "hit",
                                             !.answer = lister[q].got.value]
                      ELSE [lister[q] EXCEPT !.pc = "query"]]
    /\ UNCHANGED <<allTickets, posted, tvars, rvars, svars>>

\* The database runs the query: it reads the committed rows.
ListQueryRuns(q) ==
    /\ lister[q].pc = "query"
    /\ lister' = [SeenListers EXCEPT ![q] =
                      [lister[q] EXCEPT !.pc = "result", !.rows = tickets]]
    /\ UNCHANGED <<allTickets, posted, tvars, rvars, svars>>

\* The rows arrive: findAll throws NotFoundException when there are none,
\* else returns them, and the interceptor stores the response.
ListResolves(q) ==
    /\ lister[q].pc = "result"
    /\ IF lister[q].rows = {}
       THEN /\ lister' = [SeenListers EXCEPT ![q] =
                   [lister[q] EXCEPT !.pc = "done", !.kind = "notFound"]]
            /\ allTickets' = allTickets
       ELSE /\ lister' = [SeenListers EXCEPT ![q] =
                   [lister[q] EXCEPT !.pc = "done", !.kind = "miss",
                                     !.answer = lister[q].rows]]
            /\ allTickets' = [present |-> TRUE, value |-> lister[q].rows]
    /\ UNCHANGED <<posted, tvars, rvars, svars>>

\* Ticket.findAll rejects: InternalServerErrorException, nothing is stored.
ListQueryFails(q) ==
    /\ lister[q].pc \in {"query", "result"}
    /\ lister' = [SeenListers EXCEPT ![q] =
                      [lister[q] EXCEPT !.pc = "done", !.kind = "error"]]
    /\ UNCHANGED <<allTickets, posted, tvars, rvars, svars>>

\* The entry outlives its TTL.
ListingExpires ==
    /\ allTickets.present
    /\ allTickets' = [present |-> FALSE, value |-> {}]
    /\ lister' = SeenListers
    /\ UNCHANGED <<posted, tvars, rvars, svars>>

\* ------------------------------------------------------------------------
\* ReportsService: the status map, the metrics and the report generators
\* ------------------------------------------------------------------------

Reports == {"accounts", "yearly", "fs"}

\* The async generators (accountsAsync, yearlyAsync, fsAsync) and the
\* synchronous ones (accounts, yearly, fs).
Variants == {"async", "sync"}

\* Where a generator can fail: listing tmp, reading a file, turning its
\* lines into the output rows, writing the output file.
Stages == {"list", "read", "parse", "write"}

\* A status string, by its parts: 'idle', 'starting',
\* 'finished in <elapsed><unit>', 'error: <message>'; elapsed is the number
\* printed, in hundredths.
StatusIdle == [kind |-> "idle", elapsed |-> 0, unit |-> "", message |-> ""]

StatusStarting ==
    [kind |-> "starting", elapsed |-> 0, unit |-> "", message |-> ""]

StatusFinished(elapsed, unit) ==
    [kind |-> "finished", elapsed |-> elapsed, unit |-> unit, message |-> ""]

StatusError(message) ==
    [kind |-> "error", elapsed |-> 0, unit |-> "", message |-> message]

\* error.message of the failure at a stage.
ErrorMessage(stage) == stage

\* performance.now() differences, in milliseconds: the clock is read in
\* steps of 5 ms.
Millis(ticks) == 5 * ticks

ProcessTimes == {Millis(ticks) : ticks \in ClockTicks}

\* (ms / 1000).toFixed(2), as hundredths of a second.
ToFixed2(ms) == (ms + 5) \div 10

\* The duration metrics are fractions num/den in lowest terms.
RECURSIVE GCD(_, _)
GCD(a, b) == IF b = 0 THEN a ELSE GCD(b, a % b)

Fraction(n, d) == [num |-> n \div GCD(n, d), den |-> d \div GCD(n, d)]

MetricNames == Reports \cup {"total"}

AverageAfter_CountsThisRun(average, runs, time) ==
    Fraction(average.num * (runs + 1) + time * average.den,
             average.den * (runs + 2))

\* (average * runs + time) / (runs + 1)
AverageAfter(average, runs, time) ==
    Fraction(average.num * runs + time * average.den,
             average.den * (runs + 1))

\* The two assignments every duration update makes.
TrackMetrics(m, name, time) ==
    [m EXCEPT !.lastRunTime[name] = time,
              !.averageRunTime[name] = AverageAfter(@, m.runs, time)]

\* lastRun is null before the first completed run.
NullDate == [isNull |-> TRUE, time |-> 0]

MetricsInit ==
    [lastRunTime |-> [n \in MetricNames |-> 0],
     averageRunTime |-> [n \in MetricNames |-> Fraction(0, 1)],
     runs |-> 0,
     lastRun |-> NullDate]

\* new Date(): the calls started so far stand for the wall clock.
Now == [isNull |-> FALSE, time |-> 1 + nGenCalls + nRuns]

getMetrics_Stamped == [metrics EXCEPT !.lastRun = Now]

\* getMetrics, state and getReportStatus.
getMetrics == metrics

state(scope) == states[scope]

getReportStatus ==
    [accounts |-> state("accounts"), yearly |-> state("yearly"),
     fs |-> state("fs"), metrics |-> getMetrics]

\* What the holder of an object made by { ...this.metrics } reads in it
\* now, copied being the metrics at the time it was made: the spread copies
\* the own properties, so runs and lastRun are the values of that time,
\* while lastRunTime and averageRunTime are the service's own objects, whose
\* fields the generators and the pipeline assign in place.
Snapshot(copied) ==
    [runs |-> copied.runs,
     lastRun |-> copied.lastRun,
     lastRunTime |-> metrics.lastRunTime,
     averageRunTime |-> metrics.averageRunTime]

\* A task slot: pc is where its generator stands, report and variant which
\* generator it is, failed the stage that failed, outcome how it ended:
\* "true" or "false" returned by an async generator, "undefined" returned by
\* a synchronous one, "threw" for an exception reaching the caller; time is
\* the processTime it measured.
IdleTask ==
    [pc |-> "idle", report |-> "accounts", variant |-> "async",
     failed |-> "none", outcome |-> "none", time |-> 0]

\* A pipeline run slot: pc is where processReportsAsync stands ("deferred"
\* while its setImmediate callback is queued), triggered whether the
\* controller started it, ack what the trigger returned, alone whether no
\* other run or generator call was in progress during it, result what
\* processReportsAsync returned, total the totalTime it measured.
IdleRun ==
    [pc |-> "idle", triggered |-> FALSE, ack |-> "none", alone |-> TRUE,
     result |-> "none", total |-> 0]

ReportIndex(g) ==
    CASE g = "accounts" -> 1
      [] g = "yearly" -> 2
      [] g = "fs" -> 3

\* The task slot of run r's generator for report g; the slots in Tasks are
\* those of direct calls.
RunTask(r, g) == Cardinality(Tasks) + 3 * (r - 1) + ReportIndex(g)

Slots == Tasks \cup {RunTask(r, g) : r \in Runs, g \in Reports}

\* The run a task slot belongs to, 0 for a direct call.
Owner(k) == IF k \in Tasks THEN 0 ELSE ((k - Cardinality(Tasks) - 1) \div 3) + 1

\* The cached 'reports-status' entry: absent, or a response and the number
\* of triggered runs that had completed when it was taken.
NoOutput ==
    [accounts |-> StatusIdle, yearly |-> StatusIdle, fs |-> StatusIdle,
     metrics |-> MetricsInit]

NoEntry == [present |-> FALSE, value |-> NoOutput, takenAt |-> 0]

Entry(value, at) == [present |-> TRUE, value |-> value, takenAt |-> at]

\* A status request slot of the cached GET endpoint.
IdleReader ==
    [pc |-> "idle", got |-> NoEntry, arrivedAt |-> 0, answer |-> NoEntry]

\* The getReportStatus calls made on the service: count of them (up to 2),
\* last the latest output, same whether it equalled the one before, quiet
\* and untriggered whether no generator or pipeline step, and no trigger,
\* came between the two; stepped and triggered record what has happened
\* since the latest.
NoQueries ==
    [count |-> 0, last |-> NoOutput, same |-> TRUE, quiet |-> TRUE,
     untriggered |-> TRUE, stepped |-> FALSE, triggered |-> FALSE]

\* The service constructed with reports.parallelProcessing = mode.
ServiceInit(mode) ==
    /\ states = [g \in Reports |-> StatusIdle]
    /\ metrics = MetricsInit
    /\ task = [k \in Slots |-> IdleTask]
    /\ run = [r \in Runs |-> IdleRun]
    /\ parallel = mode
    /\ cache = NoEntry
    /\ reader = [q \in Readers |-> IdleReader]
    /\ queries = NoQueries
    /\ epoch = 0
    /\ nGenCalls = 0
    /\ nRuns = 0
    /\ recorded = [n \in MetricNames |-> 0]

\* The default configuration.
ReportsInit == ServiceInit(TRUE)

\* No ticket traffic.
TicketsIdle ==
    /\ users = {}
    /\ tickets = {}
    /\ nextId = 1
    /\ nCalls = 0
    /\ proc = [p \in Procs |-> IdleProc]

\* ------------------------------------------------------------------------
\* Steps of the report generators and of the pipeline
\* ------------------------------------------------------------------------

\* What a step of another task leaves of a task slot: the record of an
\* ended generator is dropped.
SeenTask(t) == IF t.pc = "done" THEN IdleTask ELSE t

\* The record of a generator of a pipeline run is kept until the run ends.
SeenTasks ==
    [j \in Slots |->
        IF Owner(j) = 0 \/ run[Owner(j)].pc # "running"
        THEN SeenTask(task[j]) ELSE task[j]]

SeenRuns == [r \in Runs |-> IF run[r].pc = "done" THEN IdleRun ELSE run[r]]

\* An answered status request is gone with the next step.
SeenReaders ==
    [q \in Readers |-> IF reader[q].pc = "done" THEN IdleReader ELSE reader[q]]

FreeReader(q) == reader[q].pc \in {"idle", "done"}

\* A call that starts while a run is in progress overlaps it.
Overlapped(R) ==
    [r \in Runs |->
        IF R[r].pc = "running" THEN [R[r] EXCEPT !.alone = FALSE] ELSE R[r]]

\* No generator and no run is in progress.
Quiet ==
    /\ \A k \in Slots : task[k].pc \in {"idle", "done"}
    /\ \A r \in Runs : run[r].pc # "running"

FreeTask(k) == task[k].pc \in {"idle", "done"}

FreeRun(r) == run[r].pc \in {"idle", "done"}

Started(g) ==
    [IdleTask EXCEPT !.pc = "readdir", !.report = g, !.variant = "async"]

Ended(t, failed, outcome) ==
    [t EXCEPT !.pc = "done", !.failed = failed, !.outcome = outcome]

\* A generator or pipeline step has been taken since the latest query.
Stepped(q) == IF q.count > 0 THEN [q EXCEPT !.stepped = TRUE] ELSE q

\* The duration recorded for metric n in the turn that takes the task slots
\* to T and the run slots to R: the processTime of the generator of report n
\* that returned true, the totalTime of the run that completed.
Recorded(n, T, R) ==
    IF n = "total"
    THEN LET ended == {r \in Runs : /\ run[r].pc = "running"
                                    /\ R[r].pc = "done"
                                    /\ R[r].result = "true"}
         IN  IF ended = {} THEN 0 ELSE R[CHOOSE r \in ended : TRUE].total
    ELSE LET ended == {k \in Slots : /\ task[k].pc = "writeFile"
                                     /\ T[k].pc = "done"
                                     /\ T[k].outcome = "true"
                                     /\ T[k].report = n}
         IN  IF ended = {} THEN 0 ELSE T[CHOOSE k \in ended : TRUE].time

\* The assignments of one turn of the event loop.
Commit(S, M, T, R, C, E) ==
    /\ recorded' = [n \in MetricNames |-> recorded[n] + Recorded(n, T, R)]
    /\ states' = S
    /\ metrics' = M
    /\ task' = T
    /\ run' = R
    /\ cache' = C
    /\ epoch' = E
    /\ reader' = SeenReaders
    /\ queries' = Stepped(queries)

CacheDel_Keeps(c) == c

\* cacheManager.del('reports-status').
CacheDel(c) == NoEntry

Complete_KeepsLastRun(r, S, M, T) ==
    \E total \in ProcessTimes :
        Commit(S,
               [TrackMetrics(M, "total", total) EXCEPT !.runs = @ + 1],
               T,
               [SeenRuns EXCEPT ![r] =
                    [run[r] EXCEPT !.pc = "done", !.result = "true",
                                   !.total = total]],
               IF run[r].triggered THEN CacheDel(cache) ELSE cache,
               IF run[r].triggered THEN epoch + 1 ELSE epoch)

Complete_SkipsCounter(r, S, M, T) ==
    \E total \in ProcessTimes :
        Commit(S,
               [TrackMetrics(M, "total", total) EXCEPT !.lastRun = Now],
               T,
               [SeenRuns EXCEPT ![r] =
                    [run[r] EXCEPT !.pc = "done", !.result = "true",
                                   !.total = total]],
               IF run[r].triggered THEN CacheDel(cache) ELSE cache,
               IF run[r].triggered THEN epoch + 1 ELSE epoch)

\* processReportsAsync after its generators have all resolved: the total
\* metrics, the run counter, the timestamp, return true; then, for a
\* triggered run, the .finally callback of the controller.
Complete(r, S, M, T) ==
    \E total \in ProcessTimes :
        Commit(S,
               [TrackMetrics(M, "total", total) EXCEPT
                    !.runs = @ + 1, !.lastRun = Now],
               T,
               [SeenRuns EXCEPT ![r] =
                    [run[r] EXCEPT !.pc = "done", !.result = "true",
                                   !.total = total]],
               IF run[r].triggered THEN CacheDel(cache) ELSE cache,
               IF run[r].triggered THEN epoch + 1 ELSE epoch)

\* In sequential mode the generators run in this order.
NextReport(g) == IF g = "accounts" THEN "yearly" ELSE "fs"

\* What runs in the same turn after the generator in slot k has resolved
\* with statuses S, metrics M and task slots T: nothing more for a direct
\* call; for a pipeline run, Promise.all resolves once all three have and
\* processReportsAsync goes on, or in sequential mode the next generator is
\* called.
Resume(k, S, M, T) ==
    LET r == Owner(k)
        g == task[k].report
    IN  IF r = 0
        THEN Commit(S, M, T, SeenRuns, cache, epoch)
        ELSE IF parallel
        THEN IF \A h \in Reports : T[RunTask(r, h)].pc = "done"
             THEN Complete(r, S, M, T)
             ELSE Commit(S, M, T, SeenRuns, cache, epoch)
        ELSE IF g = "fs"
             THEN Complete(r, S, M, T)
             ELSE Commit([S EXCEPT ![NextReport(g)] = StatusStarting], M,
                         [T EXCEPT ![RunTask(r, NextReport(g))] =
                              Started(NextReport(g))],
                         SeenRuns, cache, epoch)

Caught_Rethrows(k, stage) ==
    LET S == [states EXCEPT ![task[k].report] =
                  StatusError(ErrorMessage(stage))]
        T == [SeenTasks EXCEPT ![k] = Ended(task[k], stage, "threw")]
    IN  IF Owner(k) = 0
        THEN Commit(S, metrics, T, SeenRuns, cache, epoch)
        ELSE Commit(S, metrics, T,
                    [SeenRuns EXCEPT ![Owner(k)] =
                         [run[Owner(k)] EXCEPT !.pc = "done",
                                               !.result = "false"]],
                    cache, epoch)

Caught_TracksMetrics(k, stage) ==
    Resume(k,
           [states EXCEPT ![task[k].report] =
                StatusError(ErrorMessage(stage))],
           TrackMetrics(metrics, task[k].report, Millis(1)),
           [SeenTasks EXCEPT ![k] = Ended(task[k], stage, "false")])

\* The catch block of an async generator.
Caught(k, stage) ==
    Resume(k,
           [states EXCEPT ![task[k].report] =
                StatusError(ErrorMessage(stage))],
           metrics,
           [SeenTasks EXCEPT ![k] = Ended(task[k], stage, "false")])

\* An async generator is called directly: it sets its status and runs up to
\* its first await, the listing of tmp.
GeneratorAsyncCall(k, g) ==
    /\ k \in Tasks
    /\ FreeTask(k)
    /\ \A j \in Tasks : j < k => ~FreeTask(j)
    /\ nGenCalls < MaxGenCalls
    /\ nGenCalls' = nGenCalls + 1
    /\ Commit([states EXCEPT ![g] = StatusStarting], metrics,
              [SeenTasks EXCEPT ![k] = Started(g)],
              Overlapped(SeenRuns), cache, epoch)
    /\ UNCHANGED <<nRuns, others>>

\* readdir resolves; the reads of the csv files are issued.
ReaddirResolves(k) ==
    /\ task[k].pc = "readdir"
    /\ Commit(states, metrics,
              [SeenTasks EXCEPT ![k] = [task[k] EXCEPT !.pc = "readFiles"]],
              SeenRuns, cache, epoch)
    /\ UNCHANGED <<nGenCalls, nRuns, others>>

ReaddirRejects(k) ==
    /\ task[k].pc = "readdir"
    /\ Caught(k, "list")
    /\ UNCHANGED <<nGenCalls, nRuns, others>>

\* Every read has resolved and its lines are accumulated; the output rows
\* are built and the write is issued.
ReadFilesResolve(k) ==
    /\ task[k].pc = "readFiles"
    /\ Commit(states, metrics,
              [SeenTasks EXCEPT ![k] = [task[k] EXCEPT !.pc = "writeFile"]],
              SeenRuns, cache, epoch)
    /\ UNCHANGED <<nGenCalls, nRuns, others>>

\* A read rejects, or accumulating or formatting throws.
ReadFilesReject(k, stage) ==
    /\ task[k].pc = "readFiles"
    /\ stage \in {"read", "parse"}
    /\ Caught(k, stage)
    /\ UNCHANGED <<nGenCalls, nRuns, others>>

\* The write resolves: the generator writes its status, tracks its metrics
\* and returns true.
WriteFileResolves(k, time) ==
    /\ task[k].pc = "writeFile"
    /\ Resume(k,
              [states EXCEPT ![task[k].report] =
                   StatusFinished(ToFixed2(time), " seconds")],
              TrackMetrics(metrics, task[k].report, time),
              [SeenTasks EXCEPT ![k] =
                   [Ended(task[k], "none", "true") EXCEPT !.time = time]])
    /\ UNCHANGED <<nGenCalls, nRuns, others>>

WriteFileRejects(k) ==
    /\ task[k].pc = "writeFile"
    /\ Caught(k, "write")
    /\ UNCHANGED <<nGenCalls, nRuns, others>>

\* A synchronous generator runs from call to return in one turn of the
\* event loop; it tracks no metrics.
GeneratorSync(k, g, time) ==
    /\ k \in Tasks
    /\ FreeTask(k)
    /\ \A j \in Tasks : j < k => ~FreeTask(j)
    /\ nGenCalls < MaxGenCalls
    /\ nGenCalls' = nGenCalls + 1
    /\ Commit([states EXCEPT ![g] = StatusFinished(ToFixed2(time), "")],
              metrics,
              [SeenTasks EXCEPT ![k] =
                   [IdleTask EXCEPT !.pc = "done", !.report = g,
                                    !.variant = "sync",
                                    !.outcome = "undefined",
                                    !.time = time]],
              Overlapped(SeenRuns), cache, epoch)
    /\ UNCHANGED <<nRuns, others>>

\* A synchronous generator whose listing, reading, parsing or writing
\* throws: nothing catches, and the status written on entry stays.
GeneratorSyncThrows(k, g, stage) ==
    /\ k \in Tasks
    /\ FreeTask(k)
    /\ \A j \in Tasks : j < k => ~FreeTask(j)
    /\ nGenCalls < MaxGenCalls
    /\ nGenCalls' = nGenCalls + 1
    /\ Commit([states EXCEPT ![g] = StatusStarting], metrics,
              [SeenTasks EXCEPT ![k] =
                   [IdleTask EXCEPT !.pc = "done", !.report = g,
                                    !.variant = "sync", !.failed = stage,
                                    !.outcome = "threw"]],
              Overlapped(SeenRuns), cache, epoch)
    /\ UNCHANGED <<nRuns, others>>

StartGenerators_AllAtOnce(r, R) ==
    Commit([g \in Reports |-> StatusStarting], metrics,
           [j \in Slots |->
               IF Owner(j) = r
               THEN Started(CHOOSE g \in Reports : RunTask(r, g) = j)
               ELSE SeenTasks[j]],
           R, cache, epoch)

StartGenerators_AccountsFirst(r, R) ==
    Commit([states EXCEPT !["accounts"] = StatusStarting], metrics,
           [j \in Slots |->
               IF j = RunTask(r, "accounts") THEN Started("accounts")
               ELSE IF Owner(j) = r THEN IdleTask
               ELSE SeenTasks[j]],
           R, cache, epoch)

\* processReportsAsync up to its first await: in parallel mode the three
\* generators are called one after the other, in sequential mode accountsAsync
\* alone.
StartGenerators(r, R) ==
    IF parallel
    THEN Commit([g \in Reports |-> StatusStarting], metrics,
                [j \in Slots |->
                    IF Owner(j) = r
                    THEN Started(CHOOSE g \in Reports : RunTask(r, g) = j)
                    ELSE SeenTasks[j]],
                R, cache, epoch)
    ELSE Commit([states EXCEPT !["accounts"] = StatusStarting], metrics,
                [j \in Slots |->
                    IF j = RunTask(r, "accounts") THEN Started("accounts")
                    ELSE IF Owner(j) = r THEN IdleTask
                    ELSE SeenTasks[j]],
                R, cache, epoch)

\* processReportsAsync called on the service.
processReportsAsync(r) ==
    /\ FreeRun(r)
    /\ \A j \in Runs : j < r => ~FreeRun(j)
    /\ nRuns < MaxRuns
    /\ nRuns' = nRuns + 1
    /\ StartGenerators(r,
           [Overlapped(SeenRuns) EXCEPT ![r] =
                [IdleRun EXCEPT !.pc = "running", !.alone = Quiet]])
    /\ UNCHANGED <<nGenCalls, others>>

generateReportsAsync_Inline(r) ==
    /\ FreeRun(r)
    /\ \A j \in Runs : j < r => ~FreeRun(j)
    /\ nRuns < MaxRuns
    /\ nRuns' = nRuns + 1
    /\ StartGenerators(r,
           [Overlapped(SeenRuns) EXCEPT ![r] =
                [IdleRun EXCEPT !.pc = "running", !.triggered = TRUE,
                                !.ack = "processing", !.alone = Quiet]])
    /\ UNCHANGED <<nGenCalls, others>>

\* ReportsController.generateReportsAsync: the cache entry is deleted, the
\* run is queued with setImmediate, the acknowledgment is returned.
generateReportsAsync(r) ==
    /\ FreeRun(r)
    /\ \A j \in Runs : j < r => ~FreeRun(j)
    /\ nRuns < MaxRuns
    /\ nRuns' = nRuns + 1
    /\ run' = [SeenRuns EXCEPT ![r] =
                   [IdleRun EXCEPT !.pc = "deferred", !.triggered = TRUE,
                                   !.ack = "processing"]]
    /\ cache' = CacheDel(cache)
    /\ queries' = IF queries.count > 0
                  THEN [queries EXCEPT !.triggered = TRUE] ELSE queries
    /\ task' = SeenTasks
    /\ reader' = SeenReaders
    /\ UNCHANGED <<states, metrics, epoch, nGenCalls, recorded, others>>

\* The setImmediate callback: processReportsAsync is called.
RunDeferred(r) ==
    /\ run[r].pc = "deferred"
    /\ StartGenerators(r,
           [Overlapped(SeenRuns) EXCEPT ![r] =
                [run[r] EXCEPT !.pc = "running", !.alone = Quiet]])
    /\ UNCHANGED <<nGenCalls, nRuns, others>>

\* ------------------------------------------------------------------------
\* Status queries: the service methods and the cached GET endpoint
\* ------------------------------------------------------------------------

StatusQuery_Resets ==
    /\ queries' = [count |-> IF queries.count = 0 THEN 1 ELSE 2,
                   last |-> getReportStatus,
                   same |-> getReportStatus = queries.last,
                   quiet |-> ~queries.stepped,
                   untriggered |-> ~queries.triggered,
                   stepped |-> FALSE,
                   triggered |-> FALSE]
    /\ metrics' = MetricsInit
    /\ reader' = SeenReaders
    /\ UNCHANGED <<states, task, run, cache, epoch, parallel, nGenCalls,
                   nRuns, recorded,
                   tvars, svars, lvars>>

\* getReportStatus (with state and getMetrics, which it calls) is called on
\* the service and its output handed to the caller.
StatusQuery ==
    /\ queries' = [count |-> IF queries.count = 0 THEN 1 ELSE 2,
                   last |-> getReportStatus,
                   same |-> getReportStatus = queries.last,
                   quiet |-> ~queries.stepped,
                   untriggered |-> ~queries.triggered,
                   stepped |-> FALSE,
                   triggered |-> FALSE]
    /\ reader' = SeenReaders
    /\ UNCHANGED <<states, metrics, task, run, cache, epoch, parallel,
                   nGenCalls, nRuns, recorded,
                   tvars, svars, lvars>>

\* GET api/v1/reports arrives: the CacheInterceptor asks the store for
\* 'reports-status'.  The store serves the commands of the process in the
\* order they were issued, so the reply is the entry as of now.
ReadArrives(q) ==
    /\ FreeReader(q)
    /\ \A j \in Readers : j < q => ~FreeReader(j)
    /\ reader' = [SeenReaders EXCEPT ![q] =
                      [IdleReader EXCEPT !.pc = "get", !.got = cache,
                                         !.arrivedAt = epoch]]
    /\ UNCHANGED <<states, metrics, task, run, cache, epoch, parallel,
                   queries, nGenCalls, nRuns, recorded,
                   tvars, svars, lvars>>

\* The reply of the store arrives: a hit is the response; on a miss the
\* handler calls getReportStatus and the interceptor stores the response.
ReadResumes(q) ==
    /\ reader[q].pc = "get"
    /\ LET fresh == Entry(getReportStatus, epoch)
           hit == reader[q].got.present
       IN  /\ reader' = [SeenReaders EXCEPT ![q] =
                  [reader[q] EXCEPT !.pc = "done", !.got = NoEntry,
                       !.answer = IF hit THEN reader[q].got ELSE fresh]]
           /\ cache' = IF hit THEN cache ELSE fresh
    /\ UNCHANGED <<states, metrics, task, run, epoch, parallel, queries,
                   nGenCalls, nRuns, recorded,
                   tvars, svars, lvars>>

\* The entry outlives its TTL.
CacheExpires ==
    /\ cache.present
    /\ cache' = NoEntry
    /\ reader' = SeenReaders
    /\ UNCHANGED <<states, metrics, task, run, epoch, parallel, queries,
                   nGenCalls, nRuns, recorded,
                   tvars, svars, lvars>>

\* ------------------------------------------------------------------------
\* The report generators as aggregations of the staging files
\* ------------------------------------------------------------------------

\* What a destructured field holds when the line has too few commas.
Undefined == "undefined"

\* File names in the staging directory.
FileNames == {"ledger.csv", "accounts.csv", "yearly.csv", "fs.csv", "notes.txt"}

\* The name ends with '.csv'.
EndsWithCsv(name) == name # "notes.txt"

\* The output file of each generator.
OutputName(g) ==
    CASE g = "accounts" -> "accounts.csv"
      [] g = "yearly" -> "yearly.csv"
      [] g = "fs" -> "fs.csv"

\* The filter on the directory listing: accounts keeps every .csv file,
\* yearly and fs drop the file named like their own output.
Scanned(g, name) ==
    /\ EndsWithCsv(name)
    /\ g = "yearly" => name # "yearly.csv"
    /\ g = "fs" => name # "fs.csv"

\* Dates as staged, yyyy-mm-dd: 2023-06-30 and 2024-01-01.
Dates ==
    {[year |-> 2023, month |-> 6, day |-> 30],
     [year |-> 2024, month |-> 1, day |-> 1]}

\* Hours east of UTC of the hosts the service may run on.
Zones == {-5, 0}

\* new Date(date).getFullYear(): a date-only string is midnight UTC, and the
\* year is read in the host's local time, in which that instant still belongs
\* to the day before when the host is west of UTC.
getFullYear(date, offset) ==
    IF offset < 0 /\ date.month = 1 /\ date.day = 1
    THEN date.year - 1
    ELSE date.year

\* A number: NaN, or a whole amount.
NaN == [nan |-> TRUE, v |-> 0]

Num(v) == [nan |-> FALSE, v |-> v]

\* parseFloat on the texts staged.
parseFloat(text) ==
    CASE text = "0" -> Num(0)
      [] text = "300" -> Num(300)
      [] text = "1000" -> Num(1000)
      [] OTHER -> NaN

\* parseFloat(String(field || 0)): undefined and '' are falsy and give 0.
ParseAmount(field) ==
    IF field = Undefined \/ field = "" THEN Num(0) ELSE parseFloat(field)

Minus(a, b) == IF a.nan \/ b.nan THEN NaN ELSE Num(a.v - b.v)

Plus(a, b) == IF a.nan \/ b.nan THEN NaN ELSE Num(a.v + b.v)

\* value.toFixed(2): 'NaN', or the amount in hundredths.
toFixed(n) ==
    IF n.nan THEN [text |-> "NaN", cents |-> 0]
    ELSE [text |-> "number", cents |-> 100 * n.v]

\* Account names found in the staging files; 'Petty Cash' is none of the
\* accounts of the financial statement.
StagedAccounts == {"Cash", "Sales Revenue", "Common Stock", "Petty Cash"}

\* A line with its five fields.
Line(date, account, debit, credit) ==
    [date |-> date, account |-> account, debit |-> debit, credit |-> credit]

\* ''.split(','): one empty field, the others undefined.
BlankLine ==
    Line([year |-> 0, month |-> 0, day |-> 0], Undefined, Undefined, Undefined)

\* The lines staged. With numerals in both amount fields: a debit and a
\* credit line of every account in 2023, and of Cash on the first day of
\* 2024. With an amount field that is no numeral: non-numeric, empty, and
\* missing (the line ends after the debit field).
StagedLines ==
    {line \in {Line(d, a, x[1], x[2]) :
                  d \in Dates, a \in StagedAccounts,
                  x \in {<<"1000", "0">>, <<"0", "300">>}} :
        line.date.year = 2023 \/ line.account = "Cash"}
    \cup
    {Line(CHOOSE d \in Dates : d.year = 2023, "Cash", x[1], x[2]) :
        x \in {<<"abc", "300">>, <<"", "300">>, <<"1000", Undefined>>}}

File(name, content) == [name |-> name, content |-> content]

\* Directory listings of at most files files named in names, holding at
\* most lines of the lines in rows, in every order readdir may give.
RECURSIVE Directories(_, _, _, _)
Directories(names, rows, files, lines) ==
    IF files = 0 THEN {<<>>}
    ELSE {<<>>} \cup
         UNION {{<<File(name, content)>> \o rest :
                    rest \in Directories(names \ {name}, rows, files - 1,
                                         lines - Len(content))} :
                name \in names,
                content \in UNION {[1..k -> rows] : k \in 0..lines}}

\* content.trim().split('\n'): an empty file still gives one line, ''.
SplitLines(content) == IF content = <<>> THEN <<BlankLine>> ELSE content

\* Object properties in insertion order, as a sequence of key and value.
Has(object, key) == \E i \in 1..Len(object) : object[i].key = key

Get(object, key) ==
    (CHOOSE e \in {object[i] : i \in 1..Len(object)} : e.key = key).value

\* object[key] = value: a new key goes last, a known one keeps its place.
Set(object, key, value) ==
    IF Has(object, key)
    THEN [i \in 1..Len(object) |->
             IF object[i].key = key THEN [key |-> key, value |-> value]
             ELSE object[i]]
    ELSE Append(object, [key |-> key, value |-> value])

\* !object[key]: the key is absent, or its value is 0 or NaN.
Falsy(object, key) ==
    \/ ~Has(object, key)
    \/ Get(object, key).nan
    \/ Get(object, key).v = 0

\* if (!balances[key]) balances[key] = 0; balances[key] += debit - credit
AddTo(balances, key, line) ==
    LET amount == Minus(ParseAmount(line.debit), ParseAmount(line.credit))
        old == IF Falsy(balances, key) THEN Num(0) ELSE Get(balances, key)
    IN  Set(balances, key, Plus(old, amount))

\* The groups of the financial statement and their accounts, in order.
categories ==
    [Revenues |-> <<"Sales Revenue">>,
     Expenses |->
         <<"Cost of Goods Sold", "Salaries Expense", "Rent Expense",
           "Utilities Expense", "Interest Expense", "Tax Expense">>,
     Assets |->
         <<"Cash", "Accounts Receivable", "Inventory", "Fixed Assets",
           "Prepaid Expenses">>,
     Liabilities |->
         <<"Accounts Payable", "Loan Payable", "Sales Tax Payable",
           "Accrued Liabilities", "Unearned Revenue", "Dividends Payable">>,
     Equity |-> <<"Common Stock", "Retained Earnings">>]

\* Every account of the statement, in the order of `categories`.
StatementAccounts ==
    categories.Revenues \o categories.Expenses \o categories.Assets
        \o categories.Liabilities \o categories.Equity

\* The balances a generator starts from: fs has every account of the
\* statement at 0, accounts and yearly have none.
InitialBalances(g) ==
    IF g = "fs"
    THEN [i \in 1..Len(StatementAccounts) |->
             [key |-> StatementAccounts[i], value |-> Num(0)]]
    ELSE <<>>

\* The body of `for (const line of lines)` in each generator.
Aggregate(g, balances, line, offset) ==
    CASE g = "accounts" -> AddTo(balances, line.account, line)
      [] g = "yearly" ->
             IF line.account = "Cash"
             THEN AddTo(balances, ToString(getFullYear(line.date, offset)), line)
             ELSE balances
      [] g = "fs" ->
             IF Has(balances, line.account)
             THEN Set(balances, line.account,
                      Plus(Get(balances, line.account),
                           Minus(ParseAmount(line.debit),
                                 ParseAmount(line.credit))))
             ELSE balances

\* The loop over the lines of one file.
RECURSIVE AggregateLines(_, _, _, _)
AggregateLines(g, balances, lines, offset) ==
    IF lines = <<>> THEN balances
    ELSE AggregateLines(g, Aggregate(g, balances, Head(lines), offset),
                        Tail(lines), offset)

\* A line of an output file: its text and the amounts printed in it.
Text(label) == [label |-> label, amounts |-> <<>>]

Row(label, n) == [label |-> label, amounts |-> <<toFixed(n)>>]

\* The number a key of cashByYear is the numeral of: one of the years the
\* staged dates can fall in on any host.
YearOf(key) ==
    CHOOSE y \in {getFullYear(d, offset) : d \in Dates, offset \in Zones} :
        ToString(y) = key

\* Object.keys(cashByYear).sort(): the keys are numerals of four digits, so
\* their order as strings is their order as numbers.
RECURSIVE SortedKeys(_)
SortedKeys(keys) ==
    IF keys = {} THEN <<>>
    ELSE LET first == CHOOSE k \in keys :
                          \A j \in keys : YearOf(k) <= YearOf(j)
         IN  <<first>> \o SortedKeys(keys \ {first})

\* const value = balances[account] || 0
ValueOf(balances, account) ==
    IF Falsy(balances, account) THEN Num(0) ELSE Get(balances, account)

\* The per-account lines of one group of the statement.
GroupRows(balances, group) ==
    [i \in 1..Len(group) |-> Row(group[i], ValueOf(balances, group[i]))]

\* The total of one group: the values added in the order of the group.
RECURSIVE GroupTotal(_, _)
GroupTotal(balances, group) ==
    IF group = <<>> THEN Num(0)
    ELSE Plus(ValueOf(balances, Head(group)), GroupTotal(balances, Tail(group)))

\* totalEquity, without the net income folded in.
EquityTotal_AccountsOnly(balances) ==
    GroupTotal(balances, categories.Equity)

\* totalEquity: the Equity accounts, then += totalRevenue - totalExpenses.
EquityTotal(balances) ==
    Plus(GroupTotal(balances, categories.Equity),
         Minus(GroupTotal(balances, categories.Revenues),
               GroupTotal(balances, categories.Expenses)))

\* The lines each generator hands to writeFile.
Output(g, balances) ==
    CASE g = "accounts" ->
             <<Text("Account,Balance")>> \o
             [i \in 1..Len(balances) |-> Row(balances[i].key, balances[i].value)]
      [] g = "yearly" ->
             LET keys == SortedKeys({balances[i].key : i \in 1..Len(balances)})
             IN  <<Text("Financial Year,Cash Balance")>> \o
                 [i \in 1..Len(keys) |-> Row(keys[i], Get(balances, keys[i]))]
      [] g = "fs" ->
             LET netIncome == Minus(GroupTotal(balances, categories.Revenues),
                                    GroupTotal(balances, categories.Expenses))
                 totalAssets == GroupTotal(balances, categories.Assets)
                 totalLiabilities == GroupTotal(balances, categories.Liabilities)
                 totalEquity == EquityTotal(balances)
             IN  <<Text("Basic Financial Statement"), Text(""),
                   Text("Income Statement")>> \o
                 GroupRows(balances, categories.Revenues) \o
                 GroupRows(balances, categories.Expenses) \o
                 <<Row("Net Income", netIncome), Text(""),
                   Text("Balance Sheet"), Text("Assets")>> \o
                 GroupRows(balances, categories.Assets) \o
                 <<Row("Total Assets", totalAssets), Text(""),
                   Text("Liabilities")>> \o
                 GroupRows(balances, categories.Liabilities) \o
                 <<Row("Total Liabilities", totalLiabilities), Text(""),
                   Text("Equity")>> \o
                 GroupRows(balances, categories.Equity) \o
                 <<Row("Retained Earnings (Net Income)", netIncome),
                   Row("Total Equity", totalEquity), Text(""),
                   [label |-> "Assets = Liabilities + Equity",
                    amounts |-> <<toFixed(totalAssets),
                                  toFixed(Plus(totalLiabilities, totalEquity))>>]>>

\* A generator call over the staging directory: pending are the files whose
\* read has not come back, balances what the lines read so far add up to.
IdleScan ==
    [pc |-> "idle", report |-> "none", variant |-> "none", pending |-> {},
     balances |-> <<>>]

StagingIdle ==
    /\ tmp = <<>>
    /\ zone = 0
    /\ scan = IdleScan
    /\ out = [g \in Reports |-> <<>>]

\* The files of the listing that generator g reads.
CsvFiles(g) == {i \in 1..Len(tmp) : Scanned(g, tmp[i].name)}

\* The loop of a synchronous generator: the files in listing order.
RECURSIVE AggregateFiles(_, _, _, _, _)
AggregateFiles(g, balances, files, i, offset) ==
    IF i > Len(files) THEN balances
    ELSE AggregateFiles(g,
             IF Scanned(g, files[i].name)
             THEN AggregateLines(g, balances, SplitLines(files[i].content),
                                 offset)
             ELSE balances,
             files, i + 1, offset)

\* accounts(), yearly(), fs(): the whole call is one turn of the event loop.
ScanSync(g) ==
    /\ scan.pc = "idle"
    /\ LET balances == AggregateFiles(g, InitialBalances(g), tmp, 1, zone)
       IN  /\ scan' = [IdleScan EXCEPT !.pc = "done", !.report = g,
                                       !.variant = "sync",
                                       !.balances = balances]
           /\ out' = [out EXCEPT ![g] = Output(g, balances)]
    /\ UNCHANGED <<tmp, zone, tvars, rvars, lvars>>

\* accountsAsync(), yearlyAsync(), fsAsync() up to `await readdir`.
ScanAsyncCall(g) ==
    /\ scan.pc = "idle"
    /\ scan' = [IdleScan EXCEPT !.pc = "readdir", !.report = g,
                                !.variant = "async",
                                !.balances = InitialBalances(g)]
    /\ UNCHANGED <<tmp, zone, out, tvars, rvars, lvars>>

\* Promise.all has resolved: the output is built and handed to writeFile.
Written(g, balances) ==
    /\ scan' = [scan EXCEPT !.pc = "done", !.pending = {},
                            !.balances = balances]
    /\ out' = [out EXCEPT ![g] = Output(g, balances)]

\* readdir resolves: one readFile is issued per scanned file; with no file
\* to read Promise.all resolves on the spot.
Listed ==
    /\ scan.pc = "readdir"
    /\ IF CsvFiles(scan.report) = {}
       THEN Written(scan.report, scan.balances)
       ELSE /\ scan' = [scan EXCEPT !.pc = "readFile",
                                    !.pending = CsvFiles(scan.report)]
            /\ out' = out
    /\ UNCHANGED <<tmp, zone, tvars, rvars, lvars>>

\* The readFile of file i resolves, in whatever order the reads come back:
\* its lines are added to the balances, and after the last file the output
\* is written.
FileRead(i) ==
    /\ scan.pc = "readFile"
    /\ i \in scan.pending
    /\ LET balances == AggregateLines(scan.report, scan.balances,
                                   SplitLines(tmp[i].content), zone)
       IN  IF scan.pending = {i}
           THEN Written(scan.report, balances)
           ELSE /\ scan' = [scan EXCEPT !.pending = @ \ {i},
                                        !.balances = balances]
                /\ out' = out
    /\ UNCHANGED <<tmp, zone, tvars, rvars, lvars>>

\* ------------------------------------------------------------------------
\* Specifications
\* ------------------------------------------------------------------------

Init == TicketsInit /\ ReportsInit /\ StagingIdle /\ ListingIdle

\* createTicket is called by a client that waits for each call to end before
\* it makes the next one.
SerialCall(p, type, companyId) ==
    /\ \A q \in Procs : Free(q)
    /\ CreateTicketCall(p, type, companyId)

Next ==
    \/ \E p \in Procs, type \in TicketTypes, c \in Companies :
          SerialCall(p, type, c)
    \/ \E p \in Procs : checkForDuplicateRegistrationTicket(p)
    \/ \E p \in Procs : TicketCreate(p)
    \/ \E p \in Procs : TxCreate(p)
    \/ \E p \in Procs : TxUpdate(p)
    \/ \E p \in Procs : TxCommit(p)
    \/ findAll

\* The ticket router serving one call at a time, over a store whose
\* statements all succeed.
Spec == Init /\ [][Next]_vars

NextFaulty ==
    \/ Next
    \/ \E p \in Procs : TxStatementFails(p)
    \/ \E p \in Procs : QueryFails(p)

\* One call at a time, over a store whose statements may fail.
SpecFaulty == Init /\ [][NextFaulty]_vars

NextConcurrent ==
    \/ \E p \in Procs, type \in TicketTypes, c \in Companies :
          CreateTicketCall(p, type, c)
    \/ \E p \in Procs : checkForDuplicateRegistrationTicket(p)
    \/ \E p \in Procs : TicketCreate(p)
    \/ \E p \in Procs : TxCreate(p)
    \/ \E p \in Procs : TxUpdate(p)
    \/ \E p \in Procs : TxCommit(p)
    \/ findAll

\* Calls overlapping: the awaits of one createTicket interleave with those of
\* another.
SpecConcurrent == Init /\ [][NextConcurrent]_vars

InitReports == TicketsIdle /\ ReportsInit /\ StagingIdle /\ ListingIdle

NextReports ==
    \/ \E k \in Tasks, g \in Reports : GeneratorAsyncCall(k, g)
    \/ \E k \in Tasks : ReaddirResolves(k)
    \/ \E k \in Tasks : ReaddirRejects(k)
    \/ \E k \in Tasks : ReadFilesResolve(k)
    \/ \E k \in Tasks, stage \in Stages : ReadFilesReject(k, stage)
    \/ \E k \in Tasks, time \in ProcessTimes : WriteFileResolves(k, time)
    \/ \E k \in Tasks : WriteFileRejects(k)
    \/ \E k \in Tasks, g \in Reports, time \in ProcessTimes :
          GeneratorSync(k, g, time)
    \/ \E k \in Tasks, g \in Reports, stage \in Stages :
          GeneratorSyncThrows(k, g, stage)

\* The report generators called directly, their awaits interleaving, over a
\* file system whose operations may fail.
SpecReports == InitReports /\ [][NextReports]_vars

\* Every file operation that was issued comes back, resolved or rejected.
IoFairness ==
    /\ WF_vars(\E k \in Slots : ReaddirResolves(k) \/ ReaddirRejects(k))
    /\ WF_vars(\E k \in Slots, stage \in Stages :
                  ReadFilesResolve(k) \/ ReadFilesReject(k, stage))
    /\ WF_vars(\E k \in Slots, time \in ProcessTimes :
                  WriteFileResolves(k, time) \/ WriteFileRejects(k))

SpecReportsFair == SpecReports /\ IoFairness

InitPipeline ==
    /\ TicketsIdle /\ StagingIdle /\ ListingIdle
    /\ \E mode \in BOOLEAN : ServiceInit(mode)

\* No pipeline run is queued or in progress.
NoRun == \A r \in Runs : run[r].pc \notin {"deferred", "running"}

\* processReportsAsync is called by a client that waits for each run to end
\* before it starts the next one.
SerialRun(r) ==
    /\ NoRun
    /\ processReportsAsync(r)

NextPipeline ==
    \/ \E r \in Runs : SerialRun(r)
    \/ \E k \in Slots : ReaddirResolves(k)
    \/ \E k \in Slots : ReaddirRejects(k)
    \/ \E k \in Slots : ReadFilesResolve(k)
    \/ \E k \in Slots, stage \in Stages : ReadFilesReject(k, stage)
    \/ \E k \in Slots, time \in ProcessTimes : WriteFileResolves(k, time)
    \/ \E k \in Slots : WriteFileRejects(k)

\* Pipeline runs called on the service one after the other, in either
\* processing mode, over a file system whose operations may fail.
SpecPipeline == InitPipeline /\ [][NextPipeline]_vars

\* One pipeline run is triggered at a time.
SerialTrigger(r) ==
    /\ NoRun
    /\ nRuns < MaxTriggers
    /\ generateReportsAsync(r)

NextTrigger ==
    \/ \E r \in Runs : SerialTrigger(r)
    \/ \E r \in Runs : RunDeferred(r)
    \/ \E k \in Slots : ReaddirResolves(k)
    \/ \E k \in Slots : ReadFilesResolve(k)
    \/ \E k \in Slots, time \in ProcessTimes : WriteFileResolves(k, time)
    \/ \E k \in Slots : WriteFileRejects(k)
    \/ \E q \in Readers : ReadArrives(q)
    \/ \E q \in Readers : ReadResumes(q)
    \/ CacheExpires

\* The controller: triggered runs and cached status requests interleaving,
\* in either processing mode; of the file operations only the writes may
\* fail.
SpecTrigger == InitPipeline /\ [][NextTrigger]_vars

\* A generator is called directly next to the pipeline runs.
DirectCall(k, g) ==
    /\ nGenCalls < MaxDirect
    /\ GeneratorAsyncCall(k, g)

NextService ==
    \/ \E r \in Runs : SerialTrigger(r)
    \/ \E r \in Runs : RunDeferred(r)
    \/ \E k \in Tasks, g \in Reports : DirectCall(k, g)
    \/ \E k \in Slots : ReaddirResolves(k)
    \/ \E k \in Slots : ReadFilesResolve(k)
    \/ \E k \in Slots, time \in ProcessTimes : WriteFileResolves(k, time)

\* Triggered runs and direct calls of the async generators overlapping
\* them, in either processing mode, over a file system whose operations
\* succeed.
SpecService == InitPipeline /\ [][NextService]_vars

NextQueries ==
    \/ \E r \in Runs : SerialTrigger(r)
    \/ \E r \in Runs : RunDeferred(r)
    \/ \E k \in Slots : ReaddirResolves(k)
    \/ \E k \in Slots : ReadFilesResolve(k)
    \/ \E k \in Slots, time \in ProcessTimes : WriteFileResolves(k, time)
    \/ \E k \in Slots : WriteFileRejects(k)
    \/ StatusQuery

\* Status queries made on the service while triggered runs proceed; of the
\* file operations only the writes may fail.
SpecQueries == InitPipeline /\ [][NextQueries]_vars

NextOverlap ==
    \/ \E r \in Runs : generateReportsAsync(r)
    \/ \E r \in Runs : RunDeferred(r)
    \/ \E k \in Slots : ReaddirResolves(k)
    \/ \E k \in Slots : ReaddirRejects(k)
    \/ \E k \in Slots : ReadFilesResolve(k)
    \/ \E k \in Slots, time \in ProcessTimes : WriteFileResolves(k, time)

\* Triggers arriving whenever a client sends them, also while earlier runs
\* are queued or in progress, in either processing mode, over a file system
\* whose listings may fail.
SpecOverlap == InitPipeline /\ [][NextOverlap]_vars

InitListing ==
    /\ users = MkUsers([r \in UserRoles |-> 1])
    /\ tickets = {}
    /\ nextId = 1
    /\ nCalls = 0
    /\ proc = [p \in Procs |-> IdleProc]
    /\ ReportsInit
    /\ StagingIdle
    /\ ListingIdle

NextListing ==
    \/ \E p \in Procs, type \in TicketTypes, c \in Companies :
          /\ posted.count = nCalls
          /\ nCalls < MaxPosts
          /\ SerialCall(p, type, c)
    \/ \E p \in Procs : checkForDuplicateRegistrationTicket(p)
    \/ \E p \in Procs : TicketCreate(p)
    \/ \E p \in Procs : TxCreate(p)
    \/ \E p \in Procs : TxUpdate(p)
    \/ \E p \in Procs : TxCommit(p)
    \/ \E p \in Procs : CreateReturns(p)
    \/ \E q \in Listers : ListArrives(q)
    \/ \E q \in Listers : ListGetReplies(q)
    \/ \E q \in Listers : ListQueryRuns(q)
    \/ \E q \in Listers : ListResolves(q)
    \/ \E q \in Listers : ListQueryFails(q)
    \/ ListingExpires

\* The tickets controller: creations posted one at a time, and list
\* requests behind the cache interleaving with them.
SpecListing == InitListing /\ [][NextListing]_vars

InitStaging ==
    /\ TicketsIdle
    /\ ReportsInit
    /\ tmp \in Directories(FileNames, StagedLines, MaxFiles, MaxLines)
    /\ zone \in Zones
    /\ scan = IdleScan
    /\ out = [g \in Reports |-> <<>>]
    /\ ListingIdle

NextStaging ==
    \/ \E g \in Reports : ScanSync(g)
    \/ \E g \in Reports : ScanAsyncCall(g)
    \/ Listed
    \/ \E i \in 1..MaxFiles : FileRead(i)

\* One report generator called over a staging directory of any contents, on
\* a host in any time zone.
SpecStaging == InitStaging /\ [][NextStaging]_vars

InitStatement ==
    /\ TicketsIdle
    /\ ReportsInit
    /\ tmp \in Directories({"ledger.csv", "accounts.csv", "fs.csv"},
                           {line \in StagedLines :
                               /\ line.date.year = 2023
                               /\ line.debit # ""
                               /\ line.credit # Undefined},
                           MaxFiles, MaxLines)
    /\ zone = 0
    /\ scan = IdleScan
    /\ out = [g \in Reports |-> <<>>]
    /\ ListingIdle

NextStatement ==
    \/ ScanSync("fs")
    \/ ScanAsyncCall("fs")
    \/ Listed
    \/ \E i \in 1..MaxFiles : FileRead(i)

\* The financial statement generated over a staging directory of any
\* contents.
SpecStatement == InitStatement /\ [][NextStatement]_vars

\* ------------------------------------------------------------------------
\* Properties of the ticket router
\* ------------------------------------------------------------------------

\* The users of a role in a company, read off the users table.
Holders(c, role) == {u \in users : u.companyId = c /\ u.role = role}

\* Whether rows hold an open registrationAddressChange ticket of company c.
HasOpenRegistration(rows, c) ==
    \E t \in rows :
        /\ t.companyId = c
        /\ t.type = "registrationAddressChange"
        /\ t.status = "open"

\* The call served in slot p has ended, its result is out, and no step of
\* another call fell between its start and now.
EndedAlone(p) == proc[p].pc = "done" /\ ~proc[p].interleaved

\* rows with every ticket of company c resolved.
AllResolved(rows, c) ==
    {IF t.companyId = c THEN [t EXCEPT !.status = "resolved"] ELSE t :
        t \in rows}

\* C1: a strikeOff creation for a company with exactly one director, not
\* interleaved with other ticket operations, returns an open management
\* ticket assigned to that director; afterwards every ticket of the company
\* that was open before is resolved, every other ticket is as before, the new
\* ticket is in the table and open, and the table has grown by exactly one.
C1_StrikeOffResolvesOthers ==
    \A p \in Procs :
        LET r == proc[p]
            c == r.req.companyId
            t == r.res.ticket
        IN  (/\ EndedAlone(p)
             /\ r.req.type = "strikeOff"
             /\ Cardinality(Holders(c, "director")) = 1)
            => /\ r.res.kind = "ok"
               /\ t.type = "strikeOff"
               /\ t.companyId = c
               /\ t.status = "open"
               /\ t.category = "management"
               /\ \E d \in Holders(c, "director") : t.assigneeId = d.id
               /\ t.id \notin {x.id : x \in r.pre}
               /\ tickets = AllResolved(r.pre, c) \cup {t}
               /\ Cardinality(tickets) = Cardinality(r.pre) + 1

\* C1's case: a strikeOff ended for a company that had two open tickets.
C1_Witness ==
    \E p \in Procs :
        /\ EndedAlone(p)
        /\ proc[p].req.type = "strikeOff"
        /\ proc[p].res.kind = "ok"
        /\ Cardinality({t \in proc[p].pre :
               t.companyId = proc[p].req.companyId /\ t.status = "open"}) = 2

\* C2: a strikeOff creation for a company with no director or with several
\* fails with a conflict and leaves the tickets table as it was; no strikeOff
\* ticket of such a company is ever in the table.
C2_StrikeOffNeedsSoleDirector ==
    /\ \A p \in Procs :
           LET r == proc[p]
               n == Cardinality(Holders(r.req.companyId, "director"))
           IN  (r.pc = "done" /\ r.req.type = "strikeOff" /\ n # 1)
               => /\ r.res.kind = "conflict"
                  /\ r.res.msg = IF n = 0 THEN "CannotFindUser"
                                 ELSE "MultipleUsers"
                  /\ ~r.interleaved => tickets = r.pre
    /\ \A t \in tickets :
           t.type = "strikeOff"
           => Cardinality(Holders(t.companyId, "director")) = 1

\* C2's case: a strikeOff was refused for a company with several directors
\* while the table held tickets.
C2_Witness ==
    \E p \in Procs :
        /\ EndedAlone(p)
        /\ proc[p].req.type = "strikeOff"
        /\ Cardinality(Holders(proc[p].req.companyId, "director")) > 1
        /\ proc[p].res.kind = "conflict"
        /\ proc[p].pre # {}

\* C3: when a statement of the strikeOff transaction fails, or the director
\* is missing or ambiguous, the caller gets a conflict - the director
\* conflict itself, or else the generic one that suggests a retry - and the
\* tickets table is what it was before the call.
C3_StrikeOffRollsBack ==
    \A p \in Procs :
        LET r == proc[p]
        IN  (r.pc = "done" /\ r.req.type = "strikeOff" /\ r.res.kind # "ok")
            => /\ r.res.kind = "conflict"
               /\ r.res.msg = IF r.found.kind = "conflict" THEN r.found.msg
                              ELSE "PleaseTryAgain"
               /\ r.res.ticket = NoTicket
               /\ ~r.interleaved => tickets = r.pre

\* C3's case: the bulk update failed after the strikeOff ticket had been
\* inserted, for a company that had an open ticket.
C3_Witness ==
    \E p \in Procs :
        /\ EndedAlone(p)
        /\ proc[p].req.type = "strikeOff"
        /\ proc[p].found.kind = "ok"
        /\ proc[p].res.msg = "PleaseTryAgain"
        /\ nextId > 1 + Cardinality(tickets)
        /\ \E t \in proc[p].pre :
               t.companyId = proc[p].req.companyId /\ t.status = "open"

\* C4: every company has at most one open registrationAddressChange ticket,
\* also when createTicket calls overlap.
C4_AtMostOneOpenRegistration ==
    \A c \in Companies :
        Cardinality({t \in tickets :
            /\ t.companyId = c
            /\ t.type = "registrationAddressChange"
            /\ t.status = "open"}) <= 1

\* C5: a registrationAddressChange creation for a company that has an open
\* one is refused as a duplicate and changes nothing; without an open one
\* (a resolved one does not count) it is not refused as a duplicate.
C5_DuplicateRegistrationRefused ==
    \A p \in Procs :
        LET r == proc[p]
            dup == HasOpenRegistration(r.pre, r.req.companyId)
        IN  (EndedAlone(p) /\ r.req.type = "registrationAddressChange")
            => /\ dup => /\ r.res.kind = "conflict"
                         /\ r.res.msg = "DuplicateRegistration"
                         /\ tickets = r.pre
               /\ ~dup => r.res.msg # "DuplicateRegistration"

\* C5's case: a second registrationAddressChange was refused.
C5_Witness ==
    \E p \in Procs :
        /\ EndedAlone(p)
        /\ proc[p].req.type = "registrationAddressChange"
        /\ HasOpenRegistration(proc[p].pre, proc[p].req.companyId)
        /\ proc[p].res.msg = "DuplicateRegistration"

\* C6: a managementReport creation for a company with exactly one accountant
\* returns an open accounting ticket of that company assigned to that
\* accountant, and adds exactly that ticket to the table.
C6_ManagementReportToAccountant ==
    \A p \in Procs :
        LET r == proc[p]
            c == r.req.companyId
            t == r.res.ticket
        IN  (/\ EndedAlone(p)
             /\ r.req.type = "managementReport"
             /\ Cardinality(Holders(c, "accountant")) = 1)
            => /\ r.res.kind = "ok"
               /\ t.type = "managementReport"
               /\ t.category = "accounting"
               /\ t.status = "open"
               /\ t.companyId = c
               /\ \E a \in Holders(c, "accountant") : t.assigneeId = a.id
               /\ t \notin r.pre
               /\ tickets = r.pre \cup {t}
               /\ Cardinality(tickets) = Cardinality(r.pre) + 1

\* C6's case: the first ticket of the table, for a company with one
\* accountant.
C6_Witness ==
    \E p \in Procs :
        /\ EndedAlone(p)
        /\ proc[p].req.type = "managementReport"
        /\ Cardinality(Holders(proc[p].req.companyId, "accountant")) = 1
        /\ proc[p].pre = {}
        /\ proc[p].res.kind = "ok"

\* C31: a managementReport creation for a company with two or more
\* accountants does not fail: it returns a ticket assigned to the accountant
\* of that company whose creation timestamp is the latest.
C31_NewestAccountantAssigned ==
    \A p \in Procs :
        LET r == proc[p]
            accountants == Holders(r.req.companyId, "accountant")
        IN  (/\ r.pc = "done"
             /\ r.req.type = "managementReport"
             /\ Cardinality(accountants) >= 2)
            => /\ r.res.kind = "ok"
               /\ \E a \in accountants :
                      /\ r.res.ticket.assigneeId = a.id
                      /\ \A b \in accountants : b.createdAt <= a.createdAt
               /\ \E t \in tickets :
                      /\ t.id = r.res.ticket.id
                      /\ t.assigneeId = r.res.ticket.assigneeId

\* managementReport creations have ended for both companies, each with two
\* accountants: in one the newest accountant has the larger id, in the other
\* the smaller.
C31_Witness ==
    /\ \E p \in Procs :
           /\ proc[p].pc = "done"
           /\ proc[p].req.type = "managementReport"
           /\ proc[p].res.kind = "ok"
    /\ \A c \in Companies :
           /\ Cardinality(Holders(c, "accountant")) = 2
           /\ \E t \in tickets :
                  t.companyId = c /\ t.type = "managementReport"

\* C7: in a registrationAddressChange creation the director role is resolved
\* only when the company has no corporate secretary; a sole secretary gets
\* the ticket however many directors there are, and without a secretary a
\* sole director gets it, with category corporate.
C7_DirectorOnlyAsFallback ==
    \A p \in Procs :
        LET r == proc[p]
            c == r.req.companyId
            t == r.res.ticket
            secs == Holders(c, "corporateSecretary")
            dirs == Holders(c, "director")
        IN  (/\ EndedAlone(p)
             /\ r.req.type = "registrationAddressChange"
             /\ ~HasOpenRegistration(r.pre, c))
            => /\ r.found.role = IF secs = {} THEN "director"
                                 ELSE "corporateSecretary"
               /\ Cardinality(secs) = 1
                  => /\ r.res.kind = "ok"
                     /\ t.category = "corporate"
                     /\ \E u \in secs : t.assigneeId = u.id
               /\ (secs = {} /\ Cardinality(dirs) = 1)
                  => /\ r.res.kind = "ok"
                     /\ t.category = "corporate"
                     /\ \E u \in dirs : t.assigneeId = u.id

\* C7's case: the ticket went to the sole secretary of a company that has
\* several directors.
C7_Witness ==
    \E p \in Procs :
        /\ EndedAlone(p)
        /\ proc[p].req.type = "registrationAddressChange"
        /\ proc[p].res.kind = "ok"
        /\ Cardinality(Holders(proc[p].req.companyId, "corporateSecretary")) = 1
        /\ Cardinality(Holders(proc[p].req.companyId, "director")) > 1

\* C8: a creation whose resolved role is corporateSecretary, or director by
\* fallback, fails with the several-users conflict when the company has more
\* than one user of that role, and changes nothing; a managementReport never
\* resolves to one of these roles.
C8_AmbiguousAssigneeRefused ==
    \A p \in Procs :
        LET r == proc[p]
            c == r.req.companyId
            secs == Holders(c, "corporateSecretary")
            dirs == Holders(c, "director")
        IN  /\ (/\ EndedAlone(p)
                /\ r.req.type = "registrationAddressChange"
                /\ ~HasOpenRegistration(r.pre, c)
                /\ \/ Cardinality(secs) > 1
                   \/ secs = {} /\ Cardinality(dirs) > 1)
               => /\ r.res.kind = "conflict"
                  /\ r.res.msg = "MultipleUsers"
                  /\ tickets = r.pre
            /\ (r.pc = "done" /\ r.req.type = "managementReport")
               => r.found.role = "accountant"

\* C8's case: no secretary and several directors, with tickets in the table.
C8_Witness ==
    \E p \in Procs :
        /\ EndedAlone(p)
        /\ proc[p].req.type = "registrationAddressChange"
        /\ Holders(proc[p].req.companyId, "corporateSecretary") = {}
        /\ Cardinality(Holders(proc[p].req.companyId, "director")) > 1
        /\ proc[p].res.msg = "MultipleUsers"
        /\ proc[p].pre # {}

\* C9: a managementReport creation for a company without accountant, and a
\* registrationAddressChange creation for a company with neither corporate
\* secretary nor director, fail with the no-user conflict and change nothing.
C9_NoAssigneeRefused ==
    \A p \in Procs :
        LET r == proc[p]
            c == r.req.companyId
            none == \/ /\ r.req.type = "managementReport"
                       /\ Holders(c, "accountant") = {}
                    \/ /\ r.req.type = "registrationAddressChange"
                       /\ ~HasOpenRegistration(r.pre, c)
                       /\ Holders(c, "corporateSecretary") = {}
                       /\ Holders(c, "director") = {}
        IN  (EndedAlone(p) /\ none)
            => /\ r.res.kind = "conflict"
               /\ r.res.msg = "CannotFindUser"
               /\ tickets = r.pre

\* C9's case: a managementReport refused for a company that has a director
\* but no accountant, with tickets in the table.
C9_Witness ==
    \E p \in Procs :
        /\ EndedAlone(p)
        /\ proc[p].req.type = "managementReport"
        /\ Holders(proc[p].req.companyId, "accountant") = {}
        /\ Holders(proc[p].req.companyId, "director") # {}
        /\ proc[p].res.msg = "CannotFindUser"
        /\ proc[p].pre # {}

\* ------------------------------------------------------------------------
\* Properties of the report generators
\* ------------------------------------------------------------------------

\* C10: a report generator, async or synchronous, that has just ended never
\* leaves its status at 'starting', and one that failed while listing,
\* reading, parsing or writing has set its status to 'error: <message>' and
\* returned false instead of throwing.
C10_GeneratorFailureContained ==
    \A k \in Tasks :
        task[k].pc = "done" =>
            /\ states[task[k].report].kind # "starting"
            /\ task[k].failed # "none" =>
                   /\ states[task[k].report] =
                          StatusError(ErrorMessage(task[k].failed))
                   /\ task[k].outcome = "false"

\* The generator in slot k has returned true in this step.
Succeeds(k) == task[k].pc = "writeFile" /\ task'[k].pc = "done"
               /\ task'[k].outcome = "true"

\* Run r has completed in this step.
Completes(r) == run[r].pc = "running" /\ run'[r].pc = "done"

\* new = (old * runs + time) / (runs + 1), on fractions.
IsAverageOf(new, old, runs, time) ==
    new.num * (old.den * (runs + 1)) = (old.num * runs + time * old.den) * new.den

\* C11: when a pipeline run has completed, in parallel or sequential mode,
\* each of its three generators was started and has ended, the status of a
\* report is 'error: <message>' exactly when its own generator failed and
\* 'finished in ...' otherwise, and the run itself returned true.
C11_FailureStaysInItsReport ==
    \A r \in Runs :
        run[r].pc = "done" =>
            /\ run[r].result = "true"
            /\ \A g \in Reports :
                   LET t == task[RunTask(r, g)]
                   IN  /\ t.pc = "done"
                       /\ t.report = g
                       /\ t.failed # "none" =>
                              /\ states[g].kind = "error"
                              /\ states[g].message = t.failed
                              /\ t.outcome = "false"
                       /\ t.failed = "none" =>
                              /\ states[g].kind = "finished"
                              /\ t.outcome = "true"

\* A sequential run has completed with accountsAsync failed and the other
\* two finished.
C11_Witness ==
    /\ ~parallel
    /\ \E r \in Runs :
           /\ run[r].pc = "done"
           /\ task[RunTask(r, "accounts")].failed = "list"
           /\ states["accounts"].kind = "error"
           /\ states["yearly"].kind = "finished"
           /\ states["fs"].kind = "finished"

\* C12: a completed pipeline run, whichever reports failed, has returned
\* true, has recorded its total time in lastRunTime.total and in
\* averageRunTime.total, has stamped lastRun, and has raised metrics.runs
\* by one, so that the counter equals the number of completed runs; after
\* the first run runs is 1 and the four lastRunTime fields are >= 0.
C12_RunRecordsTotals ==
    /\ metrics.runs = nRuns - Cardinality({r \in Runs : run[r].pc = "running"})
    /\ metrics.runs = 0 <=> metrics.lastRun.isNull
    /\ \A r \in Runs :
           run[r].pc = "done" =>
               /\ run[r].result = "true"
               /\ metrics.runs >= 1
               /\ ~metrics.lastRun.isNull
               /\ metrics.lastRunTime["total"] = run[r].total
               /\ \A n \in MetricNames : metrics.lastRunTime[n] >= 0
               /\ metrics.runs = 1 =>
                      metrics.averageRunTime["total"].num =
                          run[r].total * metrics.averageRunTime["total"].den

\* The first run has completed with all three reports failed.
C12_Witness ==
    \E r \in Runs :
        /\ run[r].pc = "done"
        /\ metrics.runs = 1
        /\ \A g \in Reports : states[g].kind = "error"

\* C13: a status request that arrives at the cached GET endpoint after a
\* triggered run has completed and its invalidation has been issued is
\* answered with a snapshot taken after that completion, never with one
\* taken before it.
C13_NoStaleStatusAfterRun ==
    \A q \in Readers :
        reader[q].pc = "done" =>
            /\ reader[q].answer.present
            /\ reader[q].answer.takenAt >= reader[q].arrivedAt

\* A request that arrived after the run completed has been answered, and
\* the answer shows the finished accounts report.
C13_Witness ==
    \E q \in Readers :
        /\ reader[q].pc = "done"
        /\ reader[q].arrivedAt = 1
        /\ reader[q].answer.value.accounts.kind = "finished"

\* C14: the step in which the trigger is called queues the run and returns
\* {status: 'processing'}: processReportsAsync has not been called, no
\* generator of the run has started, no status and no metric has changed,
\* and the run has no result yet.
C14_TriggerReturnsFirst ==
    [][nRuns' = nRuns + 1 =>
          /\ states' = states
          /\ metrics' = metrics
          /\ \E r \in Runs :
                 /\ run'[r].pc = "deferred"
                 /\ run[r].pc # "deferred"
                 /\ run'[r].ack = "processing"
                 /\ run'[r].result = "none"
                 /\ \A g \in Reports : task'[RunTask(r, g)].pc = "idle"]_vars

\* The trigger has returned and the run it queued has not begun.
C14_Witness ==
    \E r \in Runs :
        /\ run[r].pc = "deferred"
        /\ run[r].ack = "processing"
        /\ \A g \in Reports : states[g] = StatusIdle

\* C15: every directly invoked report generator eventually completes,
\* given that each of its I/O steps eventually succeeds or fails: a status
\* that was set to 'starting' eventually becomes 'finished in ...' or
\* 'error: ...'.
C15_StartedEventuallyEnds ==
    \A g \in Reports :
        (states[g].kind = "starting")
            ~> (states[g].kind \in {"finished", "error"})

\* C16: every step in which a generator succeeds with duration d, or a run
\* completes with total duration d, sets lastRunTime of that metric to d and
\* its averageRunTime to (oldAverage * r + d) / (r + 1), r being
\* metrics.runs before the step, so before the increment of the run the
\* step may complete; no duration metric changes in any other way.
C16_AverageUpdateRule ==
    [][/\ \A k \in Slots :
              Succeeds(k) =>
                  LET g == task[k].report
                  IN  /\ metrics'.lastRunTime[g] = task'[k].time
                      /\ IsAverageOf(metrics'.averageRunTime[g],
                                     metrics.averageRunTime[g],
                                     metrics.runs, task'[k].time)
       /\ \A r \in Runs :
              Completes(r) =>
                  /\ metrics'.lastRunTime["total"] = run'[r].total
                  /\ IsAverageOf(metrics'.averageRunTime["total"],
                                 metrics.averageRunTime["total"],
                                 metrics.runs, run'[r].total)
                  /\ metrics'.runs = metrics.runs + 1
       /\ \A g \in Reports :
              (\/ metrics'.lastRunTime[g] # metrics.lastRunTime[g]
               \/ metrics'.averageRunTime[g] # metrics.averageRunTime[g])
                  => \E k \in Slots : Succeeds(k) /\ task[k].report = g
       /\ (\/ metrics'.lastRunTime["total"] # metrics.lastRunTime["total"]
           \/ metrics'.averageRunTime["total"] # metrics.averageRunTime["total"]
           \/ metrics'.runs # metrics.runs)
              => \E r \in Runs : Completes(r)]_vars

\* A generator called directly has succeeded after a completed run, and its
\* average is no whole number of milliseconds.
C16_Witness ==
    \E k \in Tasks :
        /\ task[k].pc = "done"
        /\ task[k].outcome = "true"
        /\ metrics.runs = 1
        /\ metrics.averageRunTime[task[k].report].den = 2

\* C17: the step in which a directly called generator, async or
\* synchronous, succeeds with duration d sets that report's status to
\* 'finished in ...', its lastRunTime to d and its averageRunTime by the
\* rule of C16, and leaves metrics.runs, metrics.lastRun, the total
\* durations and the other reports' statuses and metrics unchanged.
C17_DirectCallFrame ==
    [][\A k \in Tasks :
           (/\ task'[k] # task[k]
            /\ task'[k].pc = "done"
            /\ task'[k].outcome \in {"true", "undefined"}) =>
               LET g == task'[k].report
               IN  /\ states'[g].kind = "finished"
                   /\ metrics'.lastRunTime[g] = task'[k].time
                   /\ IsAverageOf(metrics'.averageRunTime[g],
                                  metrics.averageRunTime[g],
                                  metrics.runs, task'[k].time)
                   /\ metrics'.runs = metrics.runs
                   /\ metrics'.lastRun = metrics.lastRun
                   /\ metrics'.lastRunTime["total"] =
                          metrics.lastRunTime["total"]
                   /\ metrics'.averageRunTime["total"] =
                          metrics.averageRunTime["total"]
                   /\ \A h \in Reports \ {g} :
                          /\ states'[h] = states[h]
                          /\ metrics'.lastRunTime[h] = metrics.lastRunTime[h]
                          /\ metrics'.averageRunTime[h] =
                                 metrics.averageRunTime[h]]_vars

\* C18: a step in which state, getReportStatus and getMetrics are called
\* hands out the three statuses and the metrics as they are and changes no
\* status and no metric, starts no generator and no run, and leaves the
\* cache alone.
C18_QueriesArePureReads ==
    [][(queries' # queries /\ ~queries'.stepped /\ ~queries'.triggered) =>
          /\ states' = states
          /\ metrics' = metrics
          /\ task' = task
          /\ run' = run
          /\ cache' = cache
          /\ queries'.last.accounts = states["accounts"]
          /\ queries'.last.yearly = states["yearly"]
          /\ queries'.last.fs = states["fs"]
          /\ queries'.last.metrics = metrics]_vars

\* A query has been answered while a run was in progress and a report had
\* already finished.
C18_Witness ==
    /\ queries.count > 0
    /\ ~queries.stepped
    /\ \E r \in Runs : run[r].pc = "running"
    /\ \E g \in Reports : queries.last[g].kind = "finished"

\* C19: two consecutive status queries with no trigger call between them
\* return identical output, also when a run triggered earlier is in
\* progress between them.
C19_UntriggeredQueriesIdentical ==
    (queries.count = 2 /\ queries.untriggered) => queries.same

\* C19, amended: two consecutive status queries return identical output
\* when no generator and no pipeline run has taken a step between them,
\* whether or not a run is in progress and whether or not a trigger call
\* came between them.
C19_QuietQueriesIdentical ==
    (queries.count = 2 /\ queries.quiet) => queries.same

\* Two queries were made, no step between them, while a run was in
\* progress and one of its reports had finished.
C19_Witness ==
    /\ queries.count = 2
    /\ queries.quiet
    /\ ~queries.stepped
    /\ queries.same
    /\ \E r \in Runs : run[r].pc = "running"
    /\ \E g \in Reports : queries.last[g].kind = "finished"

\* C20: every status entry is 'idle', 'starting',
\* 'finished in <seconds> seconds' or 'error: <message>', whichever
\* generator variant wrote it last.
C20_StatusShapes ==
    \A g \in Reports :
        \/ states[g] = StatusIdle
        \/ states[g] = StatusStarting
        \/ states[g].kind = "finished" /\ states[g].unit = " seconds"
        \/ states[g].kind = "error" /\ states[g].message \in Stages

\* Request p issues the bulk update of createStrikeOffTicket in this step.
BulkResolves(p) == proc[p].pc = "txUpdate" /\ proc'[p].pc = "txCommit"

\* Request p commits its transaction in this step.
Commits(p) == proc[p].pc = "txCommit" /\ proc'[p].pc # "txCommit"

\* C26: the bulk-resolve of a company's other open tickets is issued inside
\* the transaction of createStrikeOffTicket, after the strikeOff insert and
\* before the commit: the step that issues it leaves the committed table
\* alone, and a committed ticket becomes resolved only in the step in which
\* a transaction commits, together with that transaction's strikeOff
\* ticket; no other step of createTicket resolves a ticket.
C26_BulkResolveInsideTransaction ==
    [][/\ \A p \in Procs :
              BulkResolves(p) =>
                  /\ proc[p].req.type = "strikeOff"
                  /\ proc[p].tx.inserted # {}
                  /\ proc[p].tx.inserted \cap tickets = {}
                  /\ tickets' = tickets
       /\ \A t \in tickets :
              (t.status = "open" /\ Resolve(t) \in tickets') =>
                  \E p \in Procs :
                      /\ Commits(p)
                      /\ t.id \in proc[p].tx.resolved
                      /\ t.companyId = proc[p].req.companyId
                      /\ proc[p].tx.inserted # {}
                      /\ proc[p].tx.inserted \subseteq tickets'
                      /\ proc[p].tx.inserted \cap tickets = {}]_vars

\* A strikeOff call has committed: its ticket is open and another ticket of
\* the company is resolved.
C26_Witness ==
    \E p \in Procs :
        /\ proc[p].pc = "done"
        /\ proc[p].req.type = "strikeOff"
        /\ proc[p].res.kind = "ok"
        /\ \E t \in tickets :
               /\ t.companyId = proc[p].req.companyId
               /\ t.status = "resolved"
               /\ t.id # proc[p].res.ticket.id

\* C27: over createTicket calls of every type and listTickets, with store
\* statements that may fail, no step removes a ticket from the table, none
\* changes a ticket's type, companyId, assigneeId or category, and a
\* resolved ticket stays resolved.
C27_TicketsOnlyResolve ==
    [][\A t \in tickets :
           \E u \in tickets' :
               /\ u.id = t.id
               /\ u.type = t.type
               /\ u.companyId = t.companyId
               /\ u.assigneeId = t.assigneeId
               /\ u.category = t.category
               /\ t.status = "resolved" => u.status = "resolved"
               /\ \A v \in tickets' : v.id = t.id => v = u]_vars

\* Three tickets exist: two resolved by strikeOff calls, the latest open.
C27_Witness ==
    /\ Cardinality(tickets) = 3
    /\ Cardinality({t \in tickets : t.status = "resolved"}) = 2
    /\ \E t \in tickets : t.type = "strikeOff" /\ t.status = "resolved"

\* C35: createTicket changes only tickets of the company named in the
\* request. A step removes or alters a ticket only when a strikeOff
\* transaction commits, and then only tickets of that call's company; a
\* ticket that is new in the table carries the company of the call that
\* inserted it. A strikeOff call that ran alone has left every ticket of
\* every other company as it was before the call, and a managementReport or
\* registrationAddressChange call that ran alone and succeeded has left every
\* ticket that existed before it as it was.
C35_OnlyOwnCompanyTouched ==
    /\ [](\A p \in Procs :
             LET r == proc[p]
             IN  EndedAlone(p) =>
                     /\ \A t \in r.pre :
                            t.companyId # r.req.companyId => t \in tickets
                     /\ (r.req.type # "strikeOff" /\ r.res.kind = "ok") =>
                            r.pre \subseteq tickets)
    /\ [][/\ \A t \in tickets :
               t \in tickets' \/
                   \E p \in Procs :
                       /\ Commits(p)
                       /\ proc[p].req.type = "strikeOff"
                       /\ t.companyId = proc[p].req.companyId
          /\ \A u \in tickets' :
               u.id \notin {t.id : t \in tickets} =>
                   \E p \in Procs :
                       /\ proc[p].pc \in {"create", "txCommit"}
                       /\ proc'[p].pc = "done"
                       /\ u.companyId = proc[p].req.companyId]_vars

\* A strikeOff call that ran alone has succeeded for a company that had an
\* open ticket, while the other company had an open ticket too.
C35_Witness ==
    \E p \in Procs :
        /\ EndedAlone(p)
        /\ proc[p].req.type = "strikeOff"
        /\ proc[p].res.kind = "ok"
        /\ \E t \in proc[p].pre :
               t.companyId = proc[p].req.companyId /\ t.status = "open"
        /\ \E t \in proc[p].pre :
               t.companyId # proc[p].req.companyId /\ t.status = "open"

\* C36: every ticket is open when it enters the table; its category is the
\* one of its type (managementReport accounting, registrationAddressChange
\* corporate, strikeOff management); and its assignee is a user of its own
\* company who has the role of its type (accountant, corporateSecretary,
\* director) or, for a registrationAddressChange ticket only, is a director.
C36_CreatedTicketsWellFormed ==
    /\ [](\A t \in tickets \cup UNION {proc[p].tx.inserted : p \in Procs} :
             /\ t.type \in TicketTypes
             /\ t.category =
                    (CASE t.type = "managementReport" -> "accounting"
                       [] t.type = "registrationAddressChange" -> "corporate"
                       [] t.type = "strikeOff" -> "management")
             /\ \E u \in users :
                    /\ u.id = t.assigneeId
                    /\ u.companyId = t.companyId
                    /\ \/ t.type = "managementReport" /\ u.role = "accountant"
                       \/ t.type = "registrationAddressChange"
                              /\ u.role \in {"corporateSecretary", "director"}
                       \/ t.type = "strikeOff" /\ u.role = "director")
    /\ [][\A u \in tickets' :
              u.id \notin {t.id : t \in tickets} => u.status = "open"]_vars

\* A ticket of each type has been created, the registrationAddressChange one
\* assigned to a director.
C36_Witness ==
    /\ \A type \in TicketTypes : \E t \in tickets : t.type = type
    /\ \E t \in tickets, u \in users :
           /\ t.type = "registrationAddressChange"
           /\ u.id = t.assigneeId
           /\ u.role = "director"

\* C38: a list request that arrives after a creation has been answered with
\* success is never answered from a cache entry older than that creation:
\* the list it gets from the cache holds every ticket the table held when
\* the creation was answered, the new one included, and shows as resolved
\* those that were resolved then.
C38_NoStaleListAfterCreate ==
    \A q \in Listers :
        (lister[q].pc = "done" /\ lister[q].kind = "hit") =>
            \A t \in lister[q].floor :
                \E u \in lister[q].answer :
                    /\ u.id = t.id
                    /\ t.status = "resolved" => u.status = "resolved"

\* C32: after full pipeline runs made one after the other, with no direct
\* generator call, each averageRunTime (accounts, yearly, fs, total) is the
\* mean of the durations recorded for it over the completed runs:
\* averageRunTime times runs is the sum of the recorded durations, also
\* when a report failed in some run.
C32_AverageIsMeanOfRecorded ==
    NoRun =>
        \A n \in MetricNames :
            metrics.averageRunTime[n].num * metrics.runs =
                recorded[n] * metrics.averageRunTime[n].den

\* C33: nothing keeps pipeline runs apart.  Every trigger call, also one made
\* while another run is queued or in progress, starts a run of its own; a
\* step changes metrics.runs only by completing a run, and then by exactly
\* one; and once no run is queued or in progress, metrics.runs equals the
\* number of trigger calls made and, if there was one, every status is
\* finished or error.
C33_EveryTriggerRunsOnce ==
    /\ [](NoRun =>
            /\ metrics.runs = nRuns
            /\ nRuns > 0 =>
                   \A g \in Reports : states[g].kind \in {"finished", "error"})
    /\ [][/\ \A r \in Runs :
               (FreeRun(r) /\ run'[r].pc = "deferred") =>
                   /\ nRuns' = nRuns + 1
                   /\ \A j \in Runs \ {r} :
                          ~FreeRun(j) => run'[j].pc = run[j].pc
          /\ metrics'.runs =
                 metrics.runs + Cardinality({r \in Runs : Completes(r)})
          /\ Cardinality({r \in Runs : Completes(r)}) <= 1]_vars

\* Two runs overlapped, and both have completed.
C33_Witness ==
    /\ NoRun
    /\ nRuns = 2
    /\ metrics.runs = 2
    /\ \E r \in Runs : run[r].pc = "done" /\ ~run[r].alone

\* C34: the step in which an async generator fails leaves the lastRunTime and
\* the averageRunTime of its report (and of the other two reports) as they
\* were; of the report's own state it changes the status alone, to error.
C34_FailureKeepsMetrics ==
    [][\A k \in Slots :
          (/\ task[k].pc \in {"readdir", "readFiles", "writeFile"}
           /\ task'[k].pc = "done"
           /\ task'[k].outcome = "false") =>
              /\ \A g \in Reports :
                     /\ metrics'.lastRunTime[g] = metrics.lastRunTime[g]
                     /\ metrics'.averageRunTime[g] = metrics.averageRunTime[g]
              /\ states'[task[k].report].kind = "error"]_vars

\* A generator has failed for a report that an earlier run had timed.
C34_Witness ==
    \E k \in Slots :
        /\ task[k].pc = "done"
        /\ task[k].outcome = "false"
        /\ states[task[k].report].kind = "error"
        /\ metrics.lastRunTime[task[k].report] > 0
        /\ metrics.averageRunTime[task[k].report].num > 0

\* C37: the metrics returned by getReportStatus are a stable value: whatever
\* the service does afterwards, the lastRunTime and averageRunTime figures
\* read in the object that the latest query returned are those it had when
\* it was returned.
C37_SnapshotIsStable ==
    queries.count > 0 =>
        /\ Snapshot(queries.last.metrics).lastRunTime =
               queries.last.metrics.lastRunTime
        /\ Snapshot(queries.last.metrics).averageRunTime =
               queries.last.metrics.averageRunTime

\* C39: in parallel mode a run sets the three statuses to starting in a
\* single step, before any of its generators waits for a file operation.
\* In the first run after construction the statuses are therefore all idle
\* or none of them is, and no status query returns a report that is
\* starting, finished or in error next to one that is idle.
C39_StartedTogether ==
    /\ [](parallel =>
            /\ \/ \A g \in Reports : states[g] = StatusIdle
               \/ \A g \in Reports : states[g] # StatusIdle
            /\ queries.count > 0 =>
                   \/ \A g \in Reports : queries.last[g] = StatusIdle
                   \/ \A g \in Reports : queries.last[g] # StatusIdle)
    /\ [][(parallel /\ \E g \in Reports :
                           states[g] = StatusIdle /\ states'[g] # StatusIdle) =>
              /\ \A g \in Reports : states'[g] = StatusStarting
              /\ \E r \in Runs :
                     /\ run[r].pc = "deferred"
                     /\ run'[r].pc = "running"
                     /\ \A g \in Reports :
                            task'[RunTask(r, g)].pc = "readdir"]_vars

\* A query made during the first parallel run returned one report finished
\* and another still starting.
C39_Witness ==
    /\ parallel
    /\ nRuns = 1
    /\ metrics.runs = 0
    /\ queries.count > 0
    /\ \E g, h \in Reports :
           /\ queries.last[g].kind \in {"finished", "error"}
           /\ queries.last[h] = StatusStarting

\* C21: metrics.runs never decreases: it changes only in a step in which a
\* full pipeline run completes, and then by exactly +1; a generator called
\* directly leaves it alone.  In every state metrics.lastRun is null if and
\* only if metrics.runs is 0.
C21_RunCounterMonotonic ==
    /\ [](metrics.lastRun.isNull <=> metrics.runs = 0)
    /\ [][/\ metrics'.runs >= metrics.runs
          /\ metrics'.runs # metrics.runs =>
                 /\ metrics'.runs = metrics.runs + 1
                 /\ \E r \in Runs : Completes(r)
          /\ metrics'.lastRun # metrics.lastRun =>
                 \E r \in Runs : Completes(r)]_vars

\* A generator called directly has succeeded after the first run completed,
\* and the counter still is 1.
C21_Witness ==
    /\ metrics.runs = 1
    /\ ~metrics.lastRun.isNull
    /\ \E k \in Tasks : task[k].pc = "done" /\ task[k].outcome = "true"
    /\ \A r \in Runs : run[r].pc # "running"

\* C28: with the parallel flag off, a step sets the status of yearly to
\* 'starting' only when accounts has reached 'finished' or 'error', and the
\* status of fs only when yearly has, also when the earlier generator
\* failed; while a generator of the run is at work no later one has begun.
C28_SequentialOrder ==
    /\ [](~parallel =>
             \A r \in Runs :
                 run[r].pc = "running" =>
                     /\ task[RunTask(r, "yearly")].pc # "idle" =>
                            task[RunTask(r, "accounts")].pc = "done"
                     /\ task[RunTask(r, "fs")].pc # "idle" =>
                            task[RunTask(r, "yearly")].pc = "done")
    /\ [][~parallel =>
             /\ (states'["yearly"] # states["yearly"]
                  /\ states'["yearly"] = StatusStarting) =>
                     states'["accounts"].kind \in {"finished", "error"}
             /\ (states'["fs"] # states["fs"]
                  /\ states'["fs"] = StatusStarting) =>
                     /\ states'["yearly"].kind \in {"finished", "error"}
                     /\ states'["accounts"].kind \in {"finished", "error"}]_vars

\* In sequential mode fs is at work after accounts failed and yearly
\* finished.
C28_Witness ==
    /\ ~parallel
    /\ \E r \in Runs :
           /\ run[r].pc = "running"
           /\ task[RunTask(r, "fs")].pc \in {"readdir", "readFiles", "writeFile"}
    /\ states["accounts"].kind = "error"
    /\ states["yearly"].kind = "finished"
    /\ states["fs"] = StatusStarting

\* ------------------------------------------------------------------------
\* Properties of the aggregations
\* ------------------------------------------------------------------------

\* The lines, as staged, of the files named in keep, in listing order.
RECURSIVE StagedRows(_, _, _)
StagedRows(files, i, keep) ==
    IF i > Len(files) THEN <<>>
    ELSE (IF files[i].name \in keep THEN files[i].content ELSE <<>>)
         \o StagedRows(files, i + 1, keep)

\* Both amount fields of the line are numerals.
Numeric(line) ==
    /\ line.debit \in {"0", "300", "1000"}
    /\ line.credit \in {"0", "300", "1000"}

\* debit - credit of a line whose amount fields are numerals.
Net(line) == parseFloat(line.debit).v - parseFloat(line.credit).v

\* The sum of debit - credit over those of the rows that are in picked.
RECURSIVE NetSum(_, _)
NetSum(rows, picked) ==
    IF rows = <<>> THEN 0
    ELSE (IF Head(rows) \in picked THEN Net(Head(rows)) ELSE 0)
         + NetSum(Tail(rows), picked)

\* The names of the .csv files.
CsvNames == {name \in FileNames : EndsWithCsv(name)}

\* The rows of an output file below its header.
Printed(g) == Tail(out[g])

\* A generator of report g has ended and written its file.
Done(g) == scan.pc = "done" /\ scan.report = g

\* The amount a row prints is the number n with two decimals.
Prints(row, n) ==
    row.amounts = <<[text |-> "number", cents |-> 100 * n]>>

\* C22: the accounts report has exactly one row per distinct account name
\* occurring in the rows of the staged .csv files, and for an account whose
\* rows all have numeric amounts the balance printed is the sum of
\* debit - credit over its rows, however the rows are split across files and
\* in whatever order the files are read.
C22_AccountsBalances ==
    Done("accounts") =>
        LET rows == StagedRows(tmp, 1, CsvNames)
            names == {rows[i].account : i \in 1..Len(rows)}
            printed == Printed("accounts")
        IN  /\ Head(out["accounts"]) = Text("Account,Balance")
            /\ {printed[i].label : i \in 1..Len(printed)} = names
            /\ Len(printed) = Cardinality(names)
            /\ \A i \in 1..Len(printed) :
                   LET mine == {line \in StagedLines :
                                   line.account = printed[i].label}
                   IN  (\A n \in 1..Len(rows) :
                            rows[n] \in mine => Numeric(rows[n]))
                           => Prints(printed[i], NetSum(rows, mine))

\* The names of the .csv files other than yearly.csv.
YearlyInput == CsvNames \ {"yearly.csv"}

\* C23: the yearly report has exactly one row per distinct calendar year
\* among the staged rows whose account is exactly 'Cash', in ascending order
\* of the year, and for a year whose Cash rows all have numeric amounts the
\* value printed is the sum of debit - credit over the Cash rows dated in
\* that year; rows of other accounts change nothing.
C23_YearlyCashByYear ==
    Done("yearly") =>
        LET rows == StagedRows(tmp, 1, YearlyInput)
            cash == {rows[i] : i \in {n \in 1..Len(rows) : rows[n].account = "Cash"}}
            years == {line.date.year : line \in cash}
            printed == Printed("yearly")
        IN  /\ Head(out["yearly"]) = Text("Financial Year,Cash Balance")
            /\ {printed[i].label : i \in 1..Len(printed)} =
                   {ToString(y) : y \in years}
            /\ Len(printed) = Cardinality(years)
            /\ \A i, j \in 1..Len(printed) :
                   i < j => YearOf(printed[i].label) < YearOf(printed[j].label)
            /\ \A i \in 1..Len(printed) :
                   LET mine == {line \in StagedLines :
                                   /\ line.account = "Cash"
                                   /\ ToString(line.date.year) = printed[i].label}
                   IN  (\A n \in 1..Len(rows) :
                            rows[n] \in mine => Numeric(rows[n]))
                           => Prints(printed[i], NetSum(rows, mine))

\* The lines of the staging files whose account the statement knows.
KnownOnly(files) ==
    [i \in 1..Len(files) |->
        [files[i] EXCEPT !.content =
            SelectSeq(@, LAMBDA line :
                \E n \in 1..Len(StatementAccounts) :
                    StatementAccounts[n] = line.account)]]

\* The lines of the statement that carry the label.
Labelled(label) == {i \in 1..Len(out["fs"]) : out["fs"][i].label = label}

\* The first amount, in hundredths, of the line that carries the label.
Cents(label) ==
    out["fs"][CHOOSE i \in Labelled(label) : TRUE].amounts[1].cents

\* The amounts printed for the accounts of a group, added up.
RECURSIVE CentsOf(_)
CentsOf(group) ==
    IF group = <<>> THEN 0 ELSE Cents(Head(group)) + CentsOf(Tail(group))

\* C24: in the fs report the rows of an account outside the closed set
\* change no line, so no account line and no total; the lines Total Assets,
\* Total Liabilities, Total Equity and 'Assets = Liabilities + Equity' are
\* there for every input; Total Equity is the sum of the Equity account
\* lines plus Net Income, which is Revenues - Expenses; and the last line
\* prints Total Assets and Total Liabilities + Total Equity, equal or not.
C24_StatementTotals ==
    Done("fs") =>
        /\ out["fs"] =
               Output("fs", AggregateFiles("fs", InitialBalances("fs"),
                                           KnownOnly(tmp), 1, zone))
        /\ \A label \in {"Net Income", "Total Assets", "Total Liabilities",
                         "Total Equity", "Assets = Liabilities + Equity"} :
               Cardinality(Labelled(label)) = 1
        /\ \A i \in 1..Len(out["fs"]) :
               out["fs"][i].label \notin StagedAccounts
                   \/ \E n \in 1..Len(StatementAccounts) :
                          StatementAccounts[n] = out["fs"][i].label
        /\ Cents("Net Income") =
               CentsOf(categories.Revenues) - CentsOf(categories.Expenses)
        /\ Cents("Total Assets") = CentsOf(categories.Assets)
        /\ Cents("Total Liabilities") = CentsOf(categories.Liabilities)
        /\ Cents("Total Equity") =
               CentsOf(categories.Equity) + Cents("Net Income")
        /\ LET last == out["fs"][Len(out["fs"])]
           IN  /\ last.label = "Assets = Liabilities + Equity"
               /\ last.amounts[1].cents = Cents("Total Assets")
               /\ last.amounts[2].cents =
                      Cents("Total Liabilities") + Cents("Total Equity")

\* fsAsync has written the statement over a Cash line and a Petty Cash
\* line: the two sides of the last line differ.
C24_Witness ==
    /\ Done("fs")
    /\ scan.variant = "async"
    /\ \E i \in 1..Len(tmp) : \E n \in 1..Len(tmp[i].content) :
           tmp[i].content[n].account = "Petty Cash"
    /\ Cents("Total Assets") = 100000
    /\ LET last == out["fs"][Len(out["fs"])]
       IN  last.amounts[1] # last.amounts[2]

\* The field as the claim has it aggregated: 0 where it is missing, empty or
\* no numeral.
AsZero(field) == IF field \in {"0", "300", "1000"} THEN field ELSE "0"

\* The staging files with every such field of every row replaced by 0.
Zeroed(files) ==
    [i \in 1..Len(files) |->
        [files[i] EXCEPT !.content =
            [n \in 1..Len(files[i].content) |->
                [files[i].content[n] EXCEPT !.debit = AsZero(@),
                                            !.credit = AsZero(@)]]]]

\* The lines of an output file, whatever their order.
LinesOf(output) == {output[i] : i \in 1..Len(output)}

\* C25: whichever generator ran, every amount it printed is a finite number,
\* and the file has the lines it would have had every missing, empty or
\* non-numeric debit and credit field of the staging files been 0.
C25_MalformedAmountsCountAsZero ==
    \A g \in Reports :
        Done(g) =>
            /\ \A i \in 1..Len(out[g]) :
                   \A a \in 1..Len(out[g][i].amounts) :
                       out[g][i].amounts[a].text = "number"
            /\ LinesOf(out[g]) =
                   LinesOf(Output(g, AggregateFiles(g, InitialBalances(g),
                                                    Zeroed(tmp), 1, zone)))

\* Where account a first occurs in rows.
FirstSeen(rows, a) ==
    CHOOSE n \in 1..Len(rows) :
        /\ rows[n].account = a
        /\ \A m \in 1..(n - 1) : rows[m].account # a

\* C29: the rows of the accounts report stand in the order in which their
\* accounts are first encountered when the files are taken in directory
\* listing order and the rows in file order, whatever order the reads of
\* accountsAsync came back in.
C29_AccountsRowOrder ==
    Done("accounts") =>
        LET rows == StagedRows(tmp, 1, CsvNames)
            names == {rows[i].account : i \in 1..Len(rows)}
            printed == Printed("accounts")
        IN  \A i, j \in 1..Len(printed) :
                (i < j /\ printed[i].label \in names /\ printed[j].label \in names)
                    => FirstSeen(rows, printed[i].label)
                           < FirstSeen(rows, printed[j].label)

\* The staging directory without the file named like the output of g.
WithoutOwnOutput(g) ==
    SelectSeq(tmp, LAMBDA file : file.name # OutputName(g))

\* C30: each generator leaves a staging file named like its own output
\* (accounts.csv, yearly.csv, fs.csv) out of its scan: over staging rows
\* with numeric amounts, the file it writes has the lines it would have
\* without that file in the staging directory.
C30_OwnOutputExcluded ==
    \A g \in Reports :
        LET rows == StagedRows(tmp, 1, FileNames)
        IN  (Done(g) /\ \A n \in 1..Len(rows) : Numeric(rows[n])) =>
                LinesOf(out[g]) =
                    LinesOf(Output(g, AggregateFiles(g, InitialBalances(g),
                                                     WithoutOwnOutput(g), 1,
                                                     zone)))

====
